---- MODULE Spec2Model ----
(***************************************************************************)
(* ReAct agent engine of mistralrs-tui.                                    *)
(*                                                                         *)
(*   agent/react/state.rs   ReActState: phase machine, iteration counter, *)
(*                          timeout, history, context, pending actions    *)
(*   agent/react/engine.rs  TuiReActEngine: run() / step() / cancel()     *)
(*                                                                         *)
(* The specifications share the variables:                                 *)
(*   SpecState  every sequence of calls of the public ReActState methods   *)
(*   Spec       the engine: run() and cancel(), with the LLM, the tools,   *)
(*              the clock and the cancel flag as the environment           *)
(*   SpecLive   Spec, where every await returns and run() is scheduled     *)
(*   SpecStep   one session, with step() also called directly between      *)
(*              two runs                                                   *)
(*   SpecTraced Spec, with a log of the tool executions act() starts, of   *)
(*              the progress events emitted, and of the points at which    *)
(*              cancel() was called and at which the timeout elapsed       *)
(*   SpecAct    one call of act(), the parallel tasks finishing in every   *)
(*              order and act() returning once its joins allow it          *)
(*   SpecGather agent/context/gatherer.rs: a CompositeContextGatherer is   *)
(*              built, given children, and gather_all() is called once    *)
(*   SpecObs    agent/react/observation.rs: one call of                   *)
(*              ObservationProcessor::process                              *)
(*   SpecParse  agent/react/thought.rs: one call of ThoughtParser::parse  *)
(*   SpecAction state.rs: every sequence of mark_* calls on an Action      *)
(*   SpecLocks  engine.rs: the two mutexes and the awaits of run() and     *)
(*              step(), with a second thread calling the accessors         *)
(*                                                                         *)
(* The engine never calls terminate(): in Spec the phase is never          *)
(* Terminated. The cancel flag is an Arc<Mutex<bool>> that run() and       *)
(* step() poll while they run, and Cancel may fire at any point of a run:  *)
(* that is the use the polling provides for, although cancel() takes       *)
(* &mut self, as run() does, and the flag has no other setter.             *)
(***************************************************************************)
EXTENDS Integers, Sequences, FiniteSets

\* ------------------------------------------------------------------ bounds

\* largest max_iterations a session is configured with
MaxIter == 2
\* the clock runs from 0 to MaxTime; a timeout is 0 or MaxTime
MaxTime == 1
\* most actions one thought plans
MaxActions == 2
\* caps, in SpecState only, on the lists the ReActState methods grow
MaxList == 1
\* most child gatherers a composite has
MaxChildren == 3
\* largest token budget a composite is configured with
MaxBudget == 2
\* most chunks one child returns, and the largest token_count of a chunk
MaxChunks == 1
MaxTokens == 2
\* largest max_observation_tokens of a processor, and the longest raw content
MaxObsTokens == 1
MaxContent == 6

\* ------------------------------------------------------------- option type

None == [some |-> FALSE]
Some(v) == [some |-> TRUE, value |-> v]

\* --------------------------------------------------------- state.rs: types

\* enum TerminationReason
TerminationReason ==
    {"TaskComplete", "MaxIterationsReached", "UserCancelled", "Error", "Timeout"}

\* enum ReActPhase; every phase is a record with the same fields
Idle == [tag |-> "Idle", reason |-> "-"]
Thinking == [tag |-> "Thinking", reason |-> "-"]
Acting == [tag |-> "Acting", reason |-> "-"]
Observing == [tag |-> "Observing", reason |-> "-"]
Terminated(r) == [tag |-> "Terminated", reason |-> r]

ReActPhase ==
    {Idle, Thinking, Acting, Observing} \cup {Terminated(r) : r \in TerminationReason}

\* enum StateError, and Ok(())
Ok == [kind |-> "Ok"]
InvalidTransition(from, to) == [kind |-> "InvalidTransition", from |-> from, to |-> to]
MaxIterationsExceeded(max) == [kind |-> "MaxIterationsExceeded", max |-> max]
AlreadyTerminated(r) == [kind |-> "AlreadyTerminated", reason |-> r]

\* struct ReActIteration (the duration is not modelled)
ReActIteration(number, thought_text, actions_taken, observations) ==
    [number |-> number, thought_text |-> thought_text,
     actions_taken |-> actions_taken, observations |-> observations]

\* ------------------------------------------------------ state.rs: methods
\* A ReActState is a record s; a method that takes &mut self and returns a
\* Result is an operator giving [state |-> the state after, result |-> ...].

\* ReActState::with_config, with started_at = Instant::now()
with_config(max_iterations, timeout, t) ==
    [phase |-> Idle,
     iteration |-> 0,
     started_at |-> t,
     last_thought |-> None,
     pending_actions |-> << >>,
     accumulated_context |-> << >>,
     max_iterations |-> max_iterations,
     timeout |-> timeout,
     iteration_history |-> << >>]

\* reset that forgets to clear the iteration history
reset_keeps_history(s, t) ==
    [s EXCEPT !.phase = Idle,
              !.iteration = 0,
              !.started_at = t,
              !.last_thought = None,
              !.pending_actions = << >>,
              !.accumulated_context = << >>]

\* ReActState::reset, called at clock value t
reset(s, t) ==
    [s EXCEPT !.phase = Idle,
              !.iteration = 0,
              !.started_at = t,
              !.last_thought = None,
              !.pending_actions = << >>,
              !.accumulated_context = << >>,
              !.iteration_history = << >>]

\* the match with the arm (Observing | Thinking, Thinking) => true
valid_transition_rethink(from, to) ==
    CASE from = Idle /\ to = Thinking -> TRUE
      [] from = Thinking /\ to = Acting -> TRUE
      [] from = Acting /\ to = Observing -> TRUE
      [] from \in {Observing, Thinking} /\ to = Thinking -> TRUE
      [] to.tag = "Terminated" -> TRUE
      [] to = Idle -> TRUE
      [] OTHER -> FALSE

\* the match without the arm (Observing, Thinking) => true
valid_transition_no_cycle(from, to) ==
    CASE from = Idle /\ to = Thinking -> TRUE
      [] from = Thinking /\ to = Acting -> TRUE
      [] from = Acting /\ to = Observing -> TRUE
      [] to.tag = "Terminated" -> TRUE
      [] to = Idle -> TRUE
      [] OTHER -> FALSE

\* the match of transition_to: is from -> to a legal transition
valid_transition(from, to) ==
    CASE from = Idle /\ to = Thinking -> TRUE
      [] from = Thinking /\ to = Acting -> TRUE
      [] from = Acting /\ to = Observing -> TRUE
      [] from = Observing /\ to = Thinking -> TRUE
      [] to.tag = "Terminated" -> TRUE
      [] to = Idle -> TRUE
      [] OTHER -> FALSE

\* transition_to with the arm (_, Idle) => true tried before the check for a
\* terminated session
transition_to_idle_first(s, new_phase) ==
    IF new_phase = Idle
    THEN [state |-> [s EXCEPT !.phase = new_phase], result |-> Ok]
    ELSE IF s.phase.tag = "Terminated"
    THEN [state |-> s, result |-> AlreadyTerminated(s.phase.reason)]
    ELSE IF ~valid_transition(s.phase, new_phase)
    THEN [state |-> s, result |-> InvalidTransition(s.phase, new_phase)]
    ELSE [state |-> [s EXCEPT !.phase = new_phase], result |-> Ok]

\* ReActState::transition_to
transition_to(s, new_phase) ==
    IF s.phase.tag = "Terminated"
    THEN [state |-> s, result |-> AlreadyTerminated(s.phase.reason)]
    ELSE IF ~valid_transition(s.phase, new_phase)
    THEN [state |-> s, result |-> InvalidTransition(s.phase, new_phase)]
    ELSE [state |-> [s EXCEPT !.phase = new_phase], result |-> Ok]

\* increment_iteration with > for >=
increment_iteration_off_by_one(s) ==
    IF s.iteration > s.max_iterations
    THEN [state |-> s, result |-> MaxIterationsExceeded(s.max_iterations)]
    ELSE [state |-> [s EXCEPT !.iteration = s.iteration + 1], result |-> Ok]

\* increment_iteration that counts before it checks
increment_iteration_counts_first(s) ==
    LET counted == [s EXCEPT !.iteration = s.iteration + 1] IN
    IF counted.iteration > s.max_iterations
    THEN [state |-> counted, result |-> MaxIterationsExceeded(s.max_iterations)]
    ELSE [state |-> counted, result |-> Ok]

\* ReActState::increment_iteration
increment_iteration(s) ==
    IF s.iteration >= s.max_iterations
    THEN [state |-> s, result |-> MaxIterationsExceeded(s.max_iterations)]
    ELSE [state |-> [s EXCEPT !.iteration = s.iteration + 1], result |-> Ok]

\* ReActState::elapsed at clock value t
elapsed(s, t) == t - s.started_at

\* ReActState::has_timed_out at clock value t
has_timed_out(s, t) == elapsed(s, t) >= s.timeout

\* ReActState::is_terminated
is_terminated(s) == s.phase.tag = "Terminated"

\* can_continue without the iteration limit
can_continue_unbounded(s, t) == ~is_terminated(s) /\ ~has_timed_out(s, t)

\* ReActState::can_continue at clock value t
can_continue(s, t) ==
    ~is_terminated(s) /\ s.iteration < s.max_iterations /\ ~has_timed_out(s, t)

\* ReActState::add_context
add_context(s, context) ==
    [s EXCEPT !.accumulated_context = Append(@, context)]

\* ReActState::queue_action
queue_action(s, action) ==
    [s EXCEPT !.pending_actions = Append(@, action)]

\* ReActState::clear_pending_actions
clear_pending_actions(s) == [s EXCEPT !.pending_actions = << >>]

\* complete_iteration numbering the records from 0
complete_iteration_zero_based(s, thought_text, actions_taken, observations) ==
    [s EXCEPT !.iteration_history =
        Append(@, ReActIteration(s.iteration - 1, thought_text, actions_taken,
                                 observations))]

\* ReActState::complete_iteration
complete_iteration(s, thought_text, actions_taken, observations) ==
    [s EXCEPT !.iteration_history =
        Append(@, ReActIteration(s.iteration, thought_text, actions_taken, observations))]

\* ReActState::terminate
terminate(s, reason) == transition_to(s, Terminated(reason))

\* -------------------------------------------------------- engine.rs: types

\* enum IterationOutcome, and the Err(e) step() returns through `?`
Continue(thought_summary, action_count) ==
    [outcome |-> "Continue", thought_summary |-> thought_summary,
     action_count |-> action_count]
Complete(answer) == [outcome |-> "Complete", final_answer |-> answer]
OutcomeError(message) == [outcome |-> "Error", message |-> message]
StepErr(e) == [outcome |-> "Err", error |-> e]

\* tool names the LLM plans with, and the texts it answers with
ToolNames == {"ls"}
Texts == {"r1", "r2"}

\* sequences over S of length lo..hi
SeqsOf(S, lo, hi) == UNION {[1..n -> S] : n \in lo..hi}

\* struct Thought as step() reads it (reasoning, planned_actions,
\* is_final_answer); a planned action is its tool name. step() reads the
\* planned actions only of a thought that is not a final answer, and the
\* reasoning of a final thought is the answer text.
Thoughts ==
    [reasoning : {"r0"}, planned_actions : SeqsOf(ToolNames, 0, MaxActions),
     is_final_answer : {FALSE}]
    \cup [reasoning : Texts, planned_actions : {<< >>}, is_final_answer : {TRUE}]

\* think() failed: parse error or context error
ThinkFailed == [failed |-> TRUE]

\* how one executor.execute call ends: a result with success = true, a result
\* with success = false, an Err from the executor, a panic inside the task
ExecOutcome == {"ok", "fail", "exec_err", "panic"}

\* struct ReActResponse (durations and session id are not modelled)
ReActResponse(answer, iterations, reason, tools) ==
    [final_answer |-> answer, iterations |-> iterations,
     terminated_reason |-> reason, total_tools_executed |-> tools]

\* ------------------------------------------------------ engine.rs: methods

\* the loop condition without the cancel flag
engine_can_continue_ignores_cancel(s, t, c) == can_continue(s, t)

\* the loop condition without the timeout
engine_can_continue_ignores_timeout(s, t, c) ==
    ~is_terminated(s) /\ s.iteration < s.max_iterations /\ ~c

\* TuiReActEngine::can_continue, c the cancel flag
engine_can_continue(s, t, c) == can_continue(s, t) /\ ~c

\* ObservationProcessor::process as the engine uses it: the observation of one
\* tool result
process(tool_name, success) ==
    [tool_name |-> tool_name,
     kind |-> IF success THEN "Success" ELSE "Error",
     content |-> IF success THEN "output" ELSE "error"]

\* execute_actions_sequential: an Err of the executor leaves through `?`
execute_actions_sequential(actions, results) ==
    IF \E i \in 1..Len(actions) : results[i] = "exec_err"
    THEN [ok |-> FALSE, observations |-> << >>]
    ELSE [ok |-> TRUE,
          observations |-> [i \in 1..Len(actions) |->
                               process(actions[i], results[i] = "ok")]]

\* the orders in which n spawned tasks can finish
Perms(n) ==
    {f \in [1..n -> 1..n] : \A i, j \in 1..n : i # j => f[i] # f[j]}

\* the task spawned for one action: an Err of the executor becomes a failed
\* result, and the task returns the observation of its result
spawned(tool_name, result) == process(tool_name, result = "ok")

\* the outputs of the spawned tasks as they become ready: order[k] is the
\* task that finishes k-th
finished(actions, results, order) ==
    [k \in 1..Len(actions) |->
        [task |-> order[k],
         output |-> spawned(actions[order[k]], results[order[k]])]]

\* the join that takes the outputs as they become ready
joined_as_finished(fin, i) == fin[i].output

\* handles[i].await: the output of the task spawned for the i-th action
joined(fin, i) == fin[CHOOSE k \in 1..Len(fin) : fin[k].task = i].output

\* execute_actions_parallel: every task is spawned, the handles are awaited in
\* the order of the actions, a task that panicked fails the join
execute_actions_parallel(actions, results, order) ==
    IF \E i \in 1..Len(actions) : results[i] = "panic"
    THEN [ok |-> FALSE, observations |-> << >>]
    ELSE LET fin == finished(actions, results, order) IN
         [ok |-> TRUE,
          observations |-> [i \in 1..Len(actions) |-> joined(fin, i)]]

\* the place in order of task i
place(order, i) == CHOOSE k \in DOMAIN order : order[k] = i

\* execute_actions_parallel: how many tasks have finished when the loop over
\* the handles is left: all of them after the last handle.await, and after a
\* join error the task that panicked first and the ones awaited before it
join_point(results, order) ==
    LET n == Len(results)
        panicked == {i \in 1..n : results[i] = "panic"}
    IN IF panicked = {}
       THEN n
       ELSE LET first == CHOOSE i \in panicked : \A j \in panicked : i <= j
                awaited == {place(order, j) : j \in 1..first}
            IN CHOOSE k \in awaited : \A m \in awaited : m <= k

\* the spawned tasks still running when k of them have finished: a JoinHandle
\* that is dropped detaches its task
running(order, k) == {order[p] : p \in (k + 1)..Len(order)}

\* TuiReActEngine::act; order is the order in which parallel tasks finish
act(parallel_tool_execution, actions, results, order) ==
    IF parallel_tool_execution /\ Len(actions) > 1
    THEN execute_actions_parallel(actions, results, order)
    ELSE execute_actions_sequential(actions, results)

\* how many executor.execute calls act() starts: the sequential loop stops at
\* the first Err, the parallel one spawns every task before it awaits one
started(parallel, actions, results) ==
    IF parallel \/ \A i \in 1..Len(actions) : results[i] # "exec_err"
    THEN Len(actions)
    ELSE CHOOSE i \in 1..Len(actions) :
            /\ results[i] = "exec_err"
            /\ \A j \in 1..(i - 1) : results[j] # "exec_err"

\* what one started execution came to: the content of the observation made of
\* its result, "-" when no observation was made
outcome_content(parallel, result) ==
    CASE result = "ok" -> "output"
      [] result = "fail" -> "error"
      [] result = "exec_err" -> IF parallel THEN "error" ELSE "-"
      [] OTHER -> "-"

\* the executions act() starts in iteration number, in the order of the actions
executions(parallel, number, actions, results) ==
    [i \in 1..started(parallel, actions, results) |->
        [number |-> number, index |-> i, tool_name |-> actions[i],
         observed |-> outcome_content(parallel, results[i])]]

\* ObservationSummary::formatted_for_llm: one block per observation
formatted_for_llm(observations) ==
    [i \in 1..Len(observations) |->
        <<observations[i].tool_name, observations[i].kind>>]

\* step() making the transition to Thinking before it counts the iteration
step_begin_transition_first(s, c) ==
    IF c
    THEN [state |-> s, ret |-> Some(OutcomeError("Cancelled by user"))]
    ELSE LET t == transition_to(s, Thinking) IN
         IF t.result # Ok
         THEN [state |-> t.state, ret |-> Some(StepErr("Failed to transition phase"))]
         ELSE LET i == increment_iteration(t.state) IN
              IF i.result # Ok
              THEN [state |-> i.state,
                    ret |-> Some(OutcomeError("Max iterations reached"))]
              ELSE [state |-> i.state, ret |-> None]

\* step(), from its entry to the await in think(); ret = None: still running
step_begin(s, c) ==
    IF c
    THEN [state |-> s, ret |-> Some(OutcomeError("Cancelled by user"))]
    ELSE LET i == increment_iteration(s) IN
         IF i.result # Ok
         THEN [state |-> i.state, ret |-> Some(OutcomeError("Max iterations reached"))]
         ELSE LET t == transition_to(i.state, Thinking) IN
              IF t.result # Ok
              THEN [state |-> t.state, ret |-> Some(StepErr("Failed to transition phase"))]
              ELSE [state |-> t.state, ret |-> None]

\* step() returning a final answer without recording the iteration
step_thought_unrecorded_answer(s, th) ==
    IF th = ThinkFailed
    THEN [state |-> s, ret |-> Some(OutcomeError("Thinking failed"))]
    ELSE IF th.is_final_answer
    THEN [state |-> s, ret |-> Some(Complete(th.reasoning))]
    ELSE IF th.planned_actions = << >>
    THEN [state |-> complete_iteration(s, th.reasoning, << >>, << >>),
          ret |-> Some(Continue(th.reasoning, 0))]
    ELSE LET t == transition_to(s, Acting) IN
         IF t.result # Ok
         THEN [state |-> t.state, ret |-> Some(StepErr("Failed to transition phase"))]
         ELSE [state |-> t.state, ret |-> None]

\* step(), from the return of think() to the await in act()
step_thought(s, th) ==
    IF th = ThinkFailed
    THEN [state |-> s, ret |-> Some(OutcomeError("Thinking failed"))]
    ELSE IF th.is_final_answer
    THEN [state |-> complete_iteration(s, th.reasoning, << >>, << >>),
          ret |-> Some(Complete(th.reasoning))]
    ELSE IF th.planned_actions = << >>
    THEN [state |-> complete_iteration(s, th.reasoning, << >>, << >>),
          ret |-> Some(Continue(th.reasoning, 0))]
    ELSE LET t == transition_to(s, Acting) IN
         IF t.result # Ok
         THEN [state |-> t.state, ret |-> Some(StepErr("Failed to transition phase"))]
         ELSE [state |-> t.state, ret |-> None]

\* step(), from the return of act() to its end (observe() cannot fail)
step_acted(s, th, acted) ==
    IF ~acted.ok
    THEN [state |-> s, ret |-> Some(OutcomeError("Action execution failed"))]
    ELSE LET t == transition_to(s, Observing) IN
         IF t.result # Ok
         THEN [state |-> t.state, ret |-> Some(StepErr("Failed to transition phase"))]
         ELSE LET observed == add_context(t.state, formatted_for_llm(acted.observations))
                  contents == [i \in 1..Len(acted.observations) |->
                                  acted.observations[i].content]
              IN [state |-> complete_iteration(observed, th.reasoning,
                                               th.planned_actions, contents),
                  ret |-> Some(Continue(th.reasoning, Len(th.planned_actions)))]

\* run() counting one tool for every iteration
tools_counted_per_iteration(s, total) ==
    IF s.iteration_history # << >> THEN total + 1 ELSE total

\* run() counting the actions of the first record after every step
tools_counted_from_first(s, total) ==
    IF s.iteration_history # << >>
    THEN total + Len(s.iteration_history[1].actions_taken)
    ELSE total

\* run(): the tools counted after a step that returned Continue
tools_counted(s, total) ==
    IF s.iteration_history # << >>
    THEN total + Len(s.iteration_history[Len(s.iteration_history)].actions_taken)
    ELSE total

\* run() leaving the cancel flag as it finds it
flag_at_start_kept(flag) == flag

\* run(): *self.cancelled.lock() = false, the flag run() starts with
flag_at_start(flag) == FALSE

\* a percentage as a fraction
Percent(n) == [num |-> n, den |-> 1]

\* a percentage that falls as the iterations go on
percentage_of_remaining(iteration, max_iterations) ==
    [num |-> (max_iterations - iteration) * 100, den |-> max_iterations]

\* think(), act(), observe(): (iteration as f64 / max_iterations as f64) * 100.0
percentage(iteration, max_iterations) ==
    [num |-> iteration * 100, den |-> max_iterations]

\* ExecutionEvent::Progress (message, call id and timestamp are not modelled);
\* at is the place of the emit_progress call
Progress(at, pct) == [at |-> at, percentage |-> pct]

\* the event think(), act() or observe() emits when it is entered, s the state
entered(phase, s) ==
    Progress(phase, percentage(s.iteration, s.max_iterations))

\* TuiReActEngine::emit_progress; the events are kept when kept is TRUE
emit_progress(log, kept, event) == IF kept THEN Append(log, event) ELSE log

\* the check after the loop without its else-if for the cancel flag
final_reason_ignores_cancel(s, t, c, reason) ==
    IF has_timed_out(s, t) THEN "Timeout" ELSE reason

\* run(): the check after the loop, reason the loop's termination_reason
final_reason(s, t, c, reason) ==
    IF has_timed_out(s, t) THEN "Timeout"
    ELSE IF c THEN "UserCancelled"
    ELSE reason

\* ------------------------------------------------------ context/gatherer.rs

\* enum ContextPriority and its numeric values
ContextPriority ==
    [Critical |-> 100, High |-> 75, Medium |-> 50, Low |-> 25, Optional |-> 0]

\* the priorities of the child gatherers of the model
Priorities == {"High", "Low"}

\* struct ContextChunk (content and metadata are not modelled)
ContextChunk(source, priority, token_count) ==
    [source |-> source, priority |-> priority, token_count |-> token_count]

\* what a child's gather() returns: Err(e), or Ok(chunks) of chunks that carry
\* the child's name and priority
GatherErr == [ok |-> FALSE, chunks |-> << >>]
GatherOk(child, counts) ==
    [ok |-> TRUE,
     chunks |-> [k \in 1..Len(counts) |->
                    ContextChunk(child.name, child.priority, counts[k])]]

\* the token counts of the chunks of one reply; a chunk has content, and
\* estimate_tokens of a text that is not empty is at least 1
ChunkCounts == SeqsOf(1..MaxTokens, 0, MaxChunks)

\* what a gather() call can come to: an error, or chunks of these counts
Returns ==
    {[ok |-> FALSE, counts |-> << >>]} \cup [ok : {TRUE}, counts : ChunkCounts]

\* sort_by on a priority key, highest first; Vec::sort_by is stable: x goes
\* behind the elements that do not rank below it
RECURSIVE insert_by_priority(_, _)

\* a sort that is not stable: x goes before the elements of its own rank
insert_by_priority_before_ties(sorted, x) ==
    IF sorted = << >> THEN <<x>>
    ELSE IF ContextPriority[Head(sorted).priority] > ContextPriority[x.priority]
    THEN <<Head(sorted)>> \o insert_by_priority(Tail(sorted), x)
    ELSE <<x>> \o sorted

insert_by_priority(sorted, x) ==
    IF sorted = << >> THEN <<x>>
    ELSE IF ContextPriority[Head(sorted).priority] >= ContextPriority[x.priority]
    THEN <<Head(sorted)>> \o insert_by_priority(Tail(sorted), x)
    ELSE <<x>> \o sorted

RECURSIVE sort_by_priority(_)
sort_by_priority(seq) ==
    IF seq = << >> THEN << >>
    ELSE insert_by_priority(sort_by_priority(SubSeq(seq, 1, Len(seq) - 1)),
                            seq[Len(seq)])

\* CompositeContextGatherer::add_gatherer: push, then sort
add_gatherer(children, gatherer) == sort_by_priority(Append(children, gatherer))

\* chunks.iter().map(|c| c.token_count).sum()
RECURSIVE token_sum(_)
token_sum(chunks) ==
    IF chunks = << >> THEN 0 ELSE Head(chunks).token_count + token_sum(Tail(chunks))

\* a subtraction that goes below 0
saturating_sub_plain(a, b) == a - b

\* usize::saturating_sub
saturating_sub(a, b) == IF b >= a THEN 0 ELSE a - b

\* GatheredContext::empty
empty == [chunks |-> << >>, total_tokens |-> 0, sources |-> {}]

\* GatheredContext::from_chunks
from_chunks(chunks) ==
    [chunks |-> sort_by_priority(chunks),
     total_tokens |-> token_sum(sort_by_priority(chunks)),
     sources |-> {chunks[k].source : k \in 1..Len(chunks)}]

\* one gather() call of the loop: the child, the budget it was handed, what it
\* returned and the budget that remains after it
GatherCall(child, handed, reply, remaining) ==
    [child |-> child, handed |-> handed, reply |-> reply, remaining |-> remaining]

\* what the i-th child answers with when its gather() comes to ret
Reply(child, ret) == IF ret.ok THEN GatherOk(child, ret.counts) ELSE GatherErr

\* the loop of gather_all from the i-th child on: the set of the ways it can
\* end, one for each way the gather() calls it makes can return; calls lists
\* the gather() calls made
RECURSIVE gather_from(_, _, _, _, _)

\* the loop that hands every child the whole budget
gather_from_whole_budget(children, i, all_chunks, remaining_budget, calls) ==
    IF i > Len(children) \/ remaining_budget = 0
    THEN {[all_chunks |-> all_chunks, calls |-> calls]}
    ELSE UNION {LET r == Reply(children[i], ret)
                    call == GatherCall(children[i], remaining_budget, r,
                                       remaining_budget)
                IN gather_from(children, i + 1, all_chunks \o r.chunks,
                               remaining_budget, Append(calls, call)) :
                ret \in Returns}

\* the loop without the break at remaining_budget == 0
gather_from_no_break(children, i, all_chunks, remaining_budget, calls) ==
    IF i > Len(children)
    THEN {[all_chunks |-> all_chunks, calls |-> calls]}
    ELSE UNION {LET r == Reply(children[i], ret)
                    left == IF r.ok
                            THEN saturating_sub(remaining_budget, token_sum(r.chunks))
                            ELSE remaining_budget
                    call == GatherCall(children[i], remaining_budget, r, left)
                IN gather_from(children, i + 1,
                               IF r.ok THEN all_chunks \o r.chunks ELSE all_chunks,
                               left, Append(calls, call)) :
                ret \in Returns}

\* the loop that ends at the first child that fails
gather_from_until_err(children, i, all_chunks, remaining_budget, calls) ==
    IF i > Len(children) \/ remaining_budget = 0
    THEN {[all_chunks |-> all_chunks, calls |-> calls]}
    ELSE UNION {LET r == Reply(children[i], ret)
                    left == IF r.ok
                            THEN saturating_sub(remaining_budget, token_sum(r.chunks))
                            ELSE remaining_budget
                    call == GatherCall(children[i], remaining_budget, r, left)
                IN IF r.ok
                   THEN gather_from(children, i + 1, all_chunks \o r.chunks,
                                    left, Append(calls, call))
                   ELSE {[all_chunks |-> all_chunks, calls |-> Append(calls, call)]} :
                ret \in Returns}

gather_from(children, i, all_chunks, remaining_budget, calls) ==
    IF i > Len(children) \/ remaining_budget = 0
    THEN {[all_chunks |-> all_chunks, calls |-> calls]}
    ELSE UNION {LET r == Reply(children[i], ret)
                    left == IF r.ok
                            THEN saturating_sub(remaining_budget, token_sum(r.chunks))
                            ELSE remaining_budget
                    call == GatherCall(children[i], remaining_budget, r, left)
                IN gather_from(children, i + 1,
                               IF r.ok THEN all_chunks \o r.chunks ELSE all_chunks,
                               left, Append(calls, call)) :
                ret \in Returns}

\* CompositeContextGatherer::gather_all: what it can return, with the calls it
\* made
gather_all(children, budget) ==
    IF children = << >>
    THEN {[context |-> empty, calls |-> << >>]}
    ELSE {[context |-> from_chunks(g.all_chunks), calls |-> g.calls] :
            g \in gather_from(children, 1, << >>, budget, << >>)}

\* ------------------------------------------------------ react/observation.rs

\* a text is the sequence of its characters, which are ASCII: its length in
\* bytes (String::len) is its length in characters (chars().count())
Chars == {"a", "b"}

\* the markers truncate_content puts in: "\n...[truncated]",
\* "...[truncated]\n" and "\n\n...[middle section truncated]...\n\n"
HeadMarker ==
    <<"\n", ".", ".", ".", "[", "t", "r", "u", "n", "c", "a", "t", "e", "d", "]">>
TailMarker ==
    <<".", ".", ".", "[", "t", "r", "u", "n", "c", "a", "t", "e", "d", "]", "\n">>
MiddleMarker ==
    <<"\n", "\n", ".", ".", ".", "[", "m", "i", "d", "d", "l", "e", " ",
      "s", "e", "c", "t", "i", "o", "n", " ", "t", "r", "u", "n", "c", "a", "t",
      "e", "d", "]", ".", ".", ".", "\n", "\n">>

\* enum TruncationStrategy; head_ratio is in tenths
HeadOnly == [tag |-> "HeadOnly", head_ratio |-> 0]
TailOnly == [tag |-> "TailOnly", head_ratio |-> 0]
HeadTail(head_ratio) == [tag |-> "HeadTail", head_ratio |-> head_ratio]

\* the head ratios of the model, in tenths: below 0, 0, the default 0.6, 1
\* and above 1
HeadRatios == {-5, 0, 6, 10, 15}

TruncationStrategy == {HeadOnly, TailOnly} \cup {HeadTail(r) : r \in HeadRatios}

\* ObservationProcessor::with_truncation(max_tokens, strategy)
with_truncation(max_tokens, strategy) ==
    [max_observation_tokens |-> max_tokens, truncation_strategy |-> strategy]

\* chars().take(n) and chars().skip(n)
take(text, n) == SubSeq(text, 1, IF n < Len(text) THEN n ELSE Len(text))
skip(text, n) == SubSeq(text, (IF n < Len(text) THEN n ELSE Len(text)) + 1, Len(text))

\* f32::clamp(0.0, 1.0), in tenths
clamp(head_ratio) ==
    IF head_ratio < 0 THEN 0 ELSE IF head_ratio > 10 THEN 10 ELSE head_ratio

\* ObservationProcessor::estimate_tokens: the characters over 4, rounded up
estimate_tokens(text) == (Len(text) + 3) \div 4

\* ObservationProcessor::truncate_content
truncate_content(p, content) ==
    LET max_chars == p.max_observation_tokens * 4 IN
    IF Len(content) <= max_chars THEN content
    ELSE CASE p.truncation_strategy.tag = "HeadOnly" ->
                take(content, max_chars) \o HeadMarker
           [] p.truncation_strategy.tag = "TailOnly" ->
                TailMarker \o skip(content, saturating_sub(Len(content), max_chars))
           [] p.truncation_strategy.tag = "HeadTail" ->
                LET head_chars ==
                        (max_chars * clamp(p.truncation_strategy.head_ratio)) \div 10
                    tail_chars == saturating_sub(max_chars, head_chars)
                    skip_count == saturating_sub(Len(content), tail_chars)
                IN take(content, head_chars) \o MiddleMarker
                      \o skip(content, skip_count)

\* ObservationProcessor::process, from the raw content on: the content and the
\* metadata of the observation
processed(p, raw_content) ==
    LET over == estimate_tokens(raw_content) > p.max_observation_tokens
        content == IF over THEN truncate_content(p, raw_content) ELSE raw_content
    IN [content |-> content,
        metadata |-> [tokens_estimated |-> Some(estimate_tokens(content)),
                      truncated |-> over,
                      original_length |-> Len(raw_content)]]

\* ------------------------------------------------- react/state.rs: Action

\* enum ActionStatus
ActionStatus == {"Pending", "Executing", "Completed", "Failed", "Skipped"}

\* struct ActionResult
ActionResult(success, output, error, duration) ==
    [success |-> success, output |-> output, error |-> error,
     duration |-> duration]

\* Action::new
Action(tool_name, arguments) ==
    [tool_name |-> tool_name, arguments |-> arguments, status |-> "Pending",
     result |-> None]

\* Action::mark_executing
mark_executing(a) == [a EXCEPT !.status = "Executing"]

\* Action::mark_completed
mark_completed(a, output, duration) ==
    [a EXCEPT !.status = "Completed",
              !.result = Some(ActionResult(TRUE, output, None, duration))]

\* Action::mark_failed
mark_failed(a, error, duration) ==
    [a EXCEPT !.status = "Failed",
              !.result = Some(ActionResult(FALSE, "", Some(error), duration))]

\* Action::mark_skipped
mark_skipped(a) == [a EXCEPT !.status = "Skipped"]

\* Action::is_terminal
is_terminal(a) == a.status \in {"Completed", "Failed", "Skipped"}

\* ---------------------------------------------------------- react/thought.rs

\* enum ExtractionPattern and enum FallbackStrategy
ExtractionPattern == {"ToolCallsInline", "JsonStructured", "ReActClassic", "FreeForm"}
FallbackStrategy == {"TreatAsThought", "TreatAsFinalAnswer", "RequestClarification"}

\* a default order with the ReAct pattern before the JSON pattern
DefaultPatterns_react_first ==
    <<"ToolCallsInline", "ReActClassic", "JsonStructured", "FreeForm">>

\* ThoughtParser::new: the default configuration
DefaultPatterns == <<"ToolCallsInline", "JsonStructured", "ReActClassic", "FreeForm">>
ThoughtParser(patterns, fallback_strategy) ==
    [patterns |-> patterns, fallback_strategy |-> fallback_strategy]

\* the pattern lists of the model: the default one, each pattern alone, none
PatternLists == {DefaultPatterns, << >>} \cup {<<pt>> : pt \in ExtractionPattern}

\* a response text is what the parser finds in it:
\*   blank    trim() is empty
\*   json     the JSON object extract_json and serde_json::from_str find:
\*            whether it has a thought / reasoning / analysis string that is
\*            not empty, its "action" string, its "arguments", its
\*            "final_answer" / "is_final" flag (false when absent); the
\*            "confidence" and the "description" are not modelled
\*   answer   the capture of FINAL_ANSWER_PATTERN
\*   thought  the capture of THOUGHT_PATTERN: none, blank after trim, or text
\*   actions  the tool names ACTION_PATTERN captures, in order
BlankText ==
    [blank |-> TRUE, json |-> None, answer |-> None, thought |-> "none",
     actions |-> << >>]
JsonObjects ==
    [reasoning : BOOLEAN, action : {None} \cup {Some(t) : t \in ToolNames},
     arguments : {None, Some("a1")}, final_answer : BOOLEAN]
ResponseTexts ==
    {BlankText} \cup
    [blank : {FALSE}, json : {None} \cup {Some(j) : j \in JsonObjects},
     answer : {None, Some("r1")}, thought : {"none", "blank", "text"},
     actions : SeqsOf(ToolNames, 0, MaxActions)]

\* struct LLMToolCall (name, arguments) and the lists of them
LLMToolCall == [name : {"ls", "cat"}, arguments : {"a1", "a2"}]
ToolCallLists == SeqsOf(LLMToolCall, 0, MaxActions)

\* struct PlannedAction (the description is not modelled) and struct Thought
\* as parse() returns it; the reasoning is the part of the text it is taken
\* from
PlannedAction(tool_name, arguments) ==
    [tool_name |-> tool_name, arguments |-> arguments]
Thought(reasoning, planned_actions, is_final_answer) ==
    [reasoning |-> reasoning, planned_actions |-> planned_actions,
     is_final_answer |-> is_final_answer]

\* Result<Thought, ThoughtParseError>
ParseOk(th) == [ok |-> TRUE, thought |-> th, error |-> "-"]
ParseErr(e) == [ok |-> FALSE, thought |-> Thought("-", << >>, FALSE), error |-> e]

\* ThoughtParser::extract_final_answer and detect_final_answer
extract_final_answer(text) == text.answer
detect_final_answer(text, has_tool_calls) ==
    IF has_tool_calls THEN FALSE ELSE extract_final_answer(text) # None

\* ThoughtParser::extract_reasoning: the thought section, or the text up to
\* the first marker
extract_reasoning(text) ==
    CASE text.thought = "text" -> "thought"
      [] text.thought = "blank" -> ""
      [] OTHER -> "text"

\* ThoughtParser::extract_planned_actions
extract_planned_actions(text) ==
    [i \in 1..Len(text.actions) |-> PlannedAction(text.actions[i], None)]

\* ThoughtParser::parse_tool_calls_inline
parse_tool_calls_inline(text, tool_calls) ==
    IF tool_calls = << >> THEN ParseErr("ParseError")
    ELSE LET is_final == detect_final_answer(text, tool_calls # << >>) IN
         ParseOk(Thought(extract_reasoning(text),
                         [i \in 1..Len(tool_calls) |->
                             PlannedAction(tool_calls[i].name,
                                           Some(tool_calls[i].arguments))],
                         is_final /\ tool_calls = << >>))

\* ThoughtParser::parse_json_structured
parse_json_structured(text) ==
    IF text.json = None THEN ParseErr("JsonError")
    ELSE IF ~text.json.value.reasoning THEN ParseErr("ParseError")
    ELSE LET obj == text.json.value IN
         ParseOk(Thought("json",
                         IF obj.action # None
                         THEN <<PlannedAction(obj.action.value, obj.arguments)>>
                         ELSE << >>,
                         obj.final_answer))

\* ThoughtParser::parse_react_classic
parse_react_classic(text) ==
    IF extract_final_answer(text) # None
    THEN ParseOk(Thought("answer", << >>, TRUE))
    ELSE IF text.thought = "blank" THEN ParseErr("ParseError")
    ELSE ParseOk(Thought(IF text.thought = "text" THEN "thought" ELSE "text",
                         extract_planned_actions(text), FALSE))

\* ThoughtParser::parse_free_form
parse_free_form(text) ==
    ParseOk(Thought("text", << >>, detect_final_answer(text, FALSE)))

\* ThoughtParser::try_pattern
try_pattern(text, tool_calls, pattern) ==
    CASE pattern = "ToolCallsInline" -> parse_tool_calls_inline(text, tool_calls)
      [] pattern = "JsonStructured" -> parse_json_structured(text)
      [] pattern = "ReActClassic" -> parse_react_classic(text)
      [] pattern = "FreeForm" -> parse_free_form(text)

\* ThoughtParser::apply_fallback
apply_fallback(p, text) ==
    CASE p.fallback_strategy = "TreatAsThought" ->
            ParseOk(Thought("text", << >>, FALSE))
      [] p.fallback_strategy = "TreatAsFinalAnswer" ->
            ParseOk(Thought("text", << >>, TRUE))
      [] p.fallback_strategy = "RequestClarification" ->
            ParseErr("ClarificationNeeded")

\* parse(): the loop over the patterns from the i-th on, then the fallback
RECURSIVE parse_from(_, _, _, _)
parse_from(p, text, tool_calls, i) ==
    IF i > Len(p.patterns) THEN apply_fallback(p, text)
    ELSE LET r == try_pattern(text, tool_calls, p.patterns[i]) IN
         IF r.ok THEN r ELSE parse_from(p, text, tool_calls, i + 1)

\* parse without the check for an empty response
parse_no_empty_check(p, llm_response, tool_calls) ==
    parse_from(p, llm_response, tool_calls, 1)

\* ThoughtParser::parse
parse(p, llm_response, tool_calls) ==
    IF llm_response.blank THEN ParseErr("EmptyResponse")
    ELSE parse_from(p, llm_response, tool_calls, 1)

\* ------------------------------------------- engine.rs: locks and awaits

\* the two mutexes of the engine: state: Arc<Mutex<ReActState>> and
\* cancelled: Arc<Mutex<bool>>
Mutexes == {"state", "cancelled"}

\* the thread that runs the engine's future and a thread of the user interface
Threads == {"engine", "other"}

\* the code as the points at which a thread locks a mutex, drops a guard, is
\* suspended at an await or returns from step(); a point is named after the
\* function and the source line, and next are the points that can follow.
\* std::sync::Mutex is not reentrant.
Lock(at, m, next) == [at |-> at, op |-> "lock", m |-> m, next |-> next]
Unlock(at, m, next) == [at |-> at, op |-> "unlock", m |-> m, next |-> next]
Await(at, next) == [at |-> at, op |-> "await", m |-> "-", next |-> next]
Ret(at, next) == [at |-> at, op |-> "ret", m |-> "-", next |-> next]

\* run(): reset of the state and of the flag, the loop, the count of the
\* tools (its guard lives to the end of the loop body), the check after the
\* loop (state, then cancelled when not timed out), the response
run_code ==
    {Lock("r278", "state", {"r280"}),
     Unlock("r280", "state", {"r283"}),
     Lock("r283", "cancelled", {"r283u"}),
     Unlock("r283u", "cancelled", {"c808"}),
     Lock("r300", "state", {"r300u"}),
     Unlock("r300u", "state", {"s385"}),
     Ret("s_continue", {"r338"}),
     Ret("s_break", {"r346"}),
     Lock("r338", "state", {"r342"}),
     Unlock("r342", "state", {"c808"}),
     Lock("r346", "state", {"r349", "r351"}),
     Lock("r349", "cancelled", {"r349u"}),
     Unlock("r349u", "cancelled", {"r351"}),
     Unlock("r351", "state", {"r364"}),
     Lock("r364", "state", {"r372"}),
     Unlock("r372", "state", {"idle"})}

\* can_continue(), the loop condition: the state guard is held while
\* is_cancelled() locks the flag; state.can_continue() = false skips the call
can_continue_code ==
    {Lock("c808", "state", {"c809", "c810f"}),
     Lock("c809", "cancelled", {"c809u"}),
     Unlock("c809u", "cancelled", {"c810"}),
     Unlock("c810", "state", {"r300", "r346"}),
     Unlock("c810f", "state", {"r346"})}

\* step() without think(), act() and observe(): is_cancelled,
\* current_iteration, the block of increment_iteration, transition_to_phase
\* three times, complete_iteration on each of the three paths
step_code ==
    {Lock("s385", "cancelled", {"s385u"}),
     Unlock("s385u", "cancelled", {"s392", "s_break"}),
     Lock("s392", "state", {"s392u"}),
     Unlock("s392u", "state", {"s398"}),
     Lock("s398", "state", {"s405"}),
     Unlock("s405", "state", {"s408", "s_break"}),
     Lock("s408", "state", {"s408u"}),
     Unlock("s408u", "state", {"t495", "s_break"}),
     Lock("s420", "state", {"s420u"}),
     Unlock("s420u", "state", {"s_break"}),
     Lock("s429", "state", {"s429u"}),
     Unlock("s429u", "state", {"s_continue"}),
     Lock("s439", "state", {"s439u"}),
     Unlock("s439u", "state", {"a539", "s_break"}),
     Lock("s450", "state", {"s450u"}),
     Unlock("s450u", "state", {"o583", "s_break"}),
     Lock("s473", "state", {"s473u"}),
     Unlock("s473u", "state", {"s_continue"})}

\* think(): current_iteration, gather_context (current_iteration and the
\* await of gather_all when there is a gatherer), build_prompt (the state is
\* locked when the history is included), the LLM call (current_iteration,
\* then the await of the answer); the thought decides the path of step()
think_code ==
    {Lock("t495", "state", {"t495u"}),
     Unlock("t495u", "state", {"g712", "t738", "m775"}),
     Lock("g712", "state", {"g712u"}),
     Unlock("g712u", "state", {"g713"}),
     Await("g713", {"t738", "m775", "s_break"}),
     Lock("t738", "state", {"t738u"}),
     Unlock("t738u", "state", {"m775"}),
     Lock("m775", "state", {"m775u"}),
     Unlock("m775u", "state", {"t515"}),
     Await("t515", {"s420", "s429", "s439", "s_break"})}

\* act() whose current_iteration keeps its guard until act() returns
act_code_guard_kept ==
    {Lock("a539", "state", {"a621", "a700"}),
     Await("a621", {"a621u"}),
     Await("a700", {"a700u"}),
     Unlock("a621u", "state", {"s450", "s_break"}),
     Unlock("a700u", "state", {"s450", "s_break"})}

\* act(): current_iteration, then the awaits of executor.execute() one
\* action after the other, or the awaits of the handles of the spawned tasks
act_code ==
    {Lock("a539", "state", {"a539u"}),
     Unlock("a539u", "state", {"a621", "a700"}),
     Await("a621", {"s450", "s_break"}),
     Await("a700", {"s450", "s_break"})}

\* observe(): current_iteration and the block of add_context
observe_code ==
    {Lock("o583", "state", {"o583u"}),
     Unlock("o583u", "state", {"o595"}),
     Lock("o595", "state", {"o597"}),
     Unlock("o597", "state", {"s473"})}

\* cancel(), is_cancelled(), current_phase() and current_iteration() as
\* another thread calls them
accessor_code ==
    {Lock("x785", "cancelled", {"x785u"}),
     Unlock("x785u", "cancelled", {"idle"}),
     Lock("x791", "cancelled", {"x791u"}),
     Unlock("x791u", "cancelled", {"idle"}),
     Lock("x797", "state", {"x797u"}),
     Unlock("x797u", "state", {"idle"}),
     Lock("x803", "state", {"x803u"}),
     Unlock("x803u", "state", {"idle"})}

\* the whole code, and the instruction at a point
Code ==
    run_code \cup can_continue_code \cup step_code \cup think_code
        \cup act_code \cup observe_code \cup accessor_code
NotCalled == [at |-> "idle", op |-> "idle", m |-> "-", next |-> {}]
Instr(at) == IF at = "idle" THEN NotCalled ELSE CHOOSE i \in Code : i.at = at

\* the entry points: run() and step() for the engine, the accessors for the
\* other thread
Entries ==
    [engine |-> {"r278", "s385"}, other |-> {"x785", "x791", "x797", "x803"}]

\* --------------------------------------------------------------- variables

VARIABLES
    state,       \* the ReActState (engine.state, or the object under test)
    now,         \* the monotonic clock Instant::now() reads
    last_call,   \* SpecState: the last ReActState method called (a Call)
    config,      \* engine.config (max_iterations and timeout are in state)
    cancelled,   \* engine.cancelled
    pc,          \* where the engine is: idle, loop, step, think, act, final, done
    caller,      \* who called the running step(): "run" or "step"
    thought,     \* step(): the thought of the iteration in progress
    final_answer,          \* run(): local final_answer
    termination_reason,    \* run(): local termination_reason
    total_tools_executed,  \* run(): local total_tools_executed
    response,    \* the ReActResponse run() returned, None while a call runs
    step_result, \* what the last step() returned
    llm_log,     \* the thoughts think() returned since the last reset
    steps,       \* the step() calls run() made since it started
    tool_log,    \* the executor.execute calls started since run() started
    cancel_at,   \* where the engine was when cancel() last set the flag
    timeout_at,  \* where the engine was when the session timed out
    progress_log,\* the progress events emitted since run() or step() was called
    traced,      \* whether tool_log, progress_log, cancel_at and timeout_at are kept
                 \* (SpecTraced)
    act_call,    \* SpecAct: the last act() call and what it returned
    gatherers,   \* CompositeContextGatherer.gatherers
    token_budget,\* CompositeContextGatherer.token_budget
    gathered,    \* SpecGather: the last gather_all call and what it returned
    processor,   \* SpecObs: the ObservationProcessor
    process_call,\* SpecObs: the last process() call and what it returned
    thought_parser, \* SpecParse: the ThoughtParser
    parse_call,  \* SpecParse: the last parse() call and what it returned
    tool_action, \* SpecAction: an Action
    lock_pc,     \* SpecLocks: the point of the code each thread is at
    holder,      \* SpecLocks: the thread that holds each mutex, or "-"
    lock_caller, \* SpecLocks: whether the engine thread called run() or step()
    turns        \* SpecLocks: the loop bodies run() has entered

stateVars == <<state, now, last_call>>
\* the variables the engine's steps leave alone
gatherVars == <<gatherers, token_budget, gathered>>
obsVars == <<processor, process_call>>
parseVars == <<thought_parser, parse_call>>
lockVars == <<lock_pc, holder, lock_caller, turns>>
unitVars == <<obsVars, parseVars, tool_action, lockVars>>
otherVars == <<traced, act_call, gatherVars, unitVars>>
\* the variables of the engine and of the composite
restVars ==
    <<state, now, last_call, config, cancelled, pc, caller, thought, final_answer,
      termination_reason, total_tools_executed, response, step_result, llm_log,
      steps, tool_log, cancel_at, timeout_at, progress_log, traced, act_call, gatherers, token_budget,
      gathered>>
engineVars ==
    <<config, cancelled, pc, caller, thought, final_answer, termination_reason,
      total_tools_executed, response, step_result, llm_log, steps, tool_log,
      cancel_at, timeout_at, progress_log, otherVars>>
runLocals == <<final_answer, termination_reason, total_tools_executed>>
vars == <<stateVars, engineVars>>

\* a call of a ReActState method: its argument, its result, the state before it
Call(op, arg, result, before) ==
    [op |-> op, arg |-> arg, result |-> result, before |-> before]

\* TuiReActEngine::with_config: the engine after construction
EngineIdle ==
    /\ cancelled = FALSE
    /\ pc = "idle"
    /\ caller = "-"
    /\ thought = None
    /\ final_answer = None
    /\ termination_reason = "MaxIterationsReached"
    /\ total_tools_executed = 0
    /\ response = None
    /\ step_result = None
    /\ llm_log = << >>
    /\ steps = 0
    /\ tool_log = << >>
    /\ cancel_at = None
    /\ timeout_at = None
    /\ progress_log = << >>
    /\ act_call = None

\* an engine without a context gatherer
NoGatherer ==
    /\ gatherers = << >>
    /\ token_budget = 0
    /\ gathered = None

\* no observation processor on its own
NoProcessor ==
    /\ processor = with_truncation(0, HeadOnly)
    /\ process_call = None

\* no thought parser on its own
NoParser ==
    /\ thought_parser = ThoughtParser(DefaultPatterns, "TreatAsThought")
    /\ parse_call = None

\* no Action on its own
NoAction == tool_action = Action("ls", "a1")

\* no thread in the engine's code, both mutexes free
NoLocks ==
    /\ lock_pc = [t \in Threads |-> "idle"]
    /\ holder = [m \in Mutexes |-> "-"]
    /\ lock_caller = "run"
    /\ turns = 0

\* none of the parts that have a specification of their own
NoUnits == NoProcessor /\ NoParser /\ NoAction /\ NoLocks

\* ---------------------------------------------------- SpecState: the calls

\* ReActState::with_config(max_iterations, timeout): the counter of a session
\* with MaxIter iterations passes through every smaller value, and the clock
\* of a session with timeout MaxTime through every smaller elapsed time
InitState ==
    /\ now = 0
    /\ \E m \in {0, MaxIter} : state = with_config(m, MaxTime, now)
    /\ last_call = Call("with_config", None, Ok, state)
    /\ config = [parallel_tool_execution |-> TRUE]
    /\ EngineIdle
    /\ traced = FALSE
    /\ NoGatherer
    /\ NoUnits

\* time passes
Tick ==
    /\ now < MaxTime
    /\ now' = now + 1
    /\ timeout_at' = IF traced /\ ~has_timed_out(state, now)
                                /\ has_timed_out(state, now + 1)
                     THEN Some([pc |-> pc, recorded |-> Len(state.iteration_history)])
                     ELSE timeout_at
    /\ UNCHANGED <<state, last_call, config, cancelled, pc, caller, thought,
                   runLocals, response, step_result, llm_log, steps, tool_log,
                   cancel_at, progress_log, otherVars>>

CallReset ==
    /\ state' = reset(state, now)
    /\ last_call' = Call("reset", None, Ok, state)
    /\ UNCHANGED <<now, engineVars>>

CallTransitionTo ==
    \E p \in ReActPhase :
        LET r == transition_to(state, p) IN
        /\ state' = r.state
        /\ last_call' = Call("transition_to", p, r.result, state)
        /\ UNCHANGED <<now, engineVars>>

CallTerminate ==
    \E reason \in TerminationReason :
        LET r == terminate(state, reason) IN
        /\ state' = r.state
        /\ last_call' = Call("terminate", reason, r.result, state)
        /\ UNCHANGED <<now, engineVars>>

CallIncrementIteration ==
    LET r == increment_iteration(state) IN
    /\ state' = r.state
    /\ last_call' = Call("increment_iteration", None, r.result, state)
    /\ UNCHANGED <<now, engineVars>>

CallCompleteIteration ==
    /\ Len(state.iteration_history) < MaxList
    /\ state' = complete_iteration(state, "t", << >>, << >>)
    /\ last_call' = Call("complete_iteration", None, Ok, state)
    /\ UNCHANGED <<now, engineVars>>

CallAddContext ==
    /\ Len(state.accumulated_context) < MaxList
    /\ state' = add_context(state, "c")
    /\ last_call' = Call("add_context", None, Ok, state)
    /\ UNCHANGED <<now, engineVars>>

CallQueueAction ==
    /\ Len(state.pending_actions) < MaxList
    /\ state' = queue_action(state, "a")
    /\ last_call' = Call("queue_action", None, Ok, state)
    /\ UNCHANGED <<now, engineVars>>

CallClearPendingActions ==
    /\ state' = clear_pending_actions(state)
    /\ last_call' = Call("clear_pending_actions", None, Ok, state)
    /\ UNCHANGED <<now, engineVars>>

NextState ==
    \/ Tick
    \/ CallReset
    \/ CallTransitionTo
    \/ CallTerminate
    \/ CallIncrementIteration
    \/ CallCompleteIteration
    \/ CallAddContext
    \/ CallQueueAction
    \/ CallClearPendingActions

SpecState == InitState /\ [][NextState]_vars

\* ------------------------------------------------------- Spec: the engine

\* TuiReActEngine::with_config(executor, event_bus, config)
Init ==
    /\ now = 0
    /\ \E m \in 0..MaxIter, d \in {0, MaxTime} : state = with_config(m, d, now)
    /\ last_call = Call("with_config", None, Ok, state)
    /\ config \in [parallel_tool_execution : BOOLEAN]
    /\ EngineIdle
    /\ traced = FALSE
    /\ NoGatherer
    /\ NoUnits

\* cancel(): the flag is an Arc<Mutex<bool>>, set from outside at any moment
Cancel ==
    /\ ~cancelled
    /\ cancelled' = TRUE
    /\ cancel_at' = IF traced
                    THEN Some([pc |-> pc, recorded |-> Len(state.iteration_history)])
                    ELSE cancel_at
    /\ UNCHANGED <<stateVars, config, pc, caller, thought, runLocals, response,
                   step_result, llm_log, steps, tool_log, timeout_at, progress_log, otherVars>>

\* run(), up to the first evaluation of the loop condition
RunStart ==
    /\ pc \in {"idle", "done"}
    /\ state' = reset(state, now)
    /\ cancelled' = flag_at_start(cancelled)
    /\ final_answer' = None
    /\ termination_reason' = "MaxIterationsReached"
    /\ total_tools_executed' = 0
    /\ response' = None
    /\ step_result' = None
    /\ llm_log' = << >>
    /\ steps' = 0
    /\ tool_log' = << >>
    /\ cancel_at' = IF traced /\ cancelled
                    THEN Some([pc |-> "before run", recorded |-> 0])
                    ELSE None
    /\ timeout_at' = None
    /\ progress_log' = emit_progress(<< >>, traced, Progress("start", Percent(0)))
    /\ caller' = "run"
    /\ pc' = "loop"
    /\ UNCHANGED <<now, last_call, config, thought, otherVars>>

\* run(): while self.can_continue()
LoopCheck ==
    /\ pc = "loop"
    /\ IF engine_can_continue(state, now, cancelled)
       THEN pc' = "step" /\ steps' = steps + 1
       ELSE pc' = "final" /\ steps' = steps
    /\ UNCHANGED <<stateVars, config, cancelled, caller, thought, runLocals,
                   response, step_result, llm_log, tool_log, cancel_at, timeout_at, progress_log, otherVars>>

\* step() called by the user interface, outside run()
StepCall ==
    /\ pc \in {"idle", "done"}
    /\ caller' = "step"
    /\ pc' = "step"
    /\ response' = None
    /\ step_result' = None
    /\ progress_log' = << >>
    /\ UNCHANGED <<stateVars, config, cancelled, thought, runLocals, llm_log, steps,
                   tool_log, cancel_at, timeout_at, otherVars>>

\* step() returns r.ret with the state r.state: to run()'s match, or to the
\* caller of step()
StepReturns(r) ==
    /\ state' = r.state
    /\ step_result' = r.ret
    /\ thought' = None
    /\ IF caller = "step"
       THEN /\ pc' = "idle"
            /\ UNCHANGED runLocals
       ELSE CASE r.ret.value.outcome = "Continue" ->
                   /\ total_tools_executed' = tools_counted(r.state, total_tools_executed)
                   /\ pc' = "loop"
                   /\ UNCHANGED <<final_answer, termination_reason>>
              [] r.ret.value.outcome = "Complete" ->
                   /\ final_answer' = Some(r.ret.value.final_answer)
                   /\ termination_reason' = "TaskComplete"
                   /\ pc' = "final"
                   /\ UNCHANGED total_tools_executed
              [] OTHER ->
                   /\ termination_reason' = "Error"
                   /\ pc' = "final"
                   /\ UNCHANGED <<final_answer, total_tools_executed>>

\* step() goes on to its next await
StepAwaits(r, next_pc, th) ==
    /\ state' = r.state
    /\ thought' = th
    /\ pc' = next_pc
    /\ UNCHANGED <<runLocals, step_result>>

\* step(): cancel check, increment_iteration, transition to Thinking
StepBegin ==
    /\ pc = "step"
    /\ LET r == step_begin(state, cancelled) IN
       /\ IF r.ret = None THEN StepAwaits(r, "think", None) ELSE StepReturns(r)
       /\ progress_log' = IF r.ret = None
                          THEN emit_progress(progress_log, traced,
                                             entered("Thinking", r.state))
                          ELSE progress_log
    /\ UNCHANGED <<now, last_call, config, cancelled, caller, response, llm_log, steps,
                   tool_log, cancel_at, timeout_at, otherVars>>

\* think() returns: the thought the parser made of the LLM's answer, or an error
ThinkReturns ==
    /\ pc = "think"
    /\ \E th \in Thoughts \cup {ThinkFailed} :
         /\ LET r == step_thought(state, th) IN
            /\ IF r.ret = None THEN StepAwaits(r, "act", Some(th))
                               ELSE StepReturns(r)
            /\ progress_log' = IF r.ret = None
                               THEN emit_progress(progress_log, traced,
                                                  entered("Acting", r.state))
                               ELSE progress_log
         /\ llm_log' = IF th = ThinkFailed THEN llm_log ELSE Append(llm_log, th)
    /\ UNCHANGED <<now, last_call, config, cancelled, caller, response, steps,
                   tool_log, cancel_at, timeout_at, otherVars>>

\* act() returns: every tool call of the iteration has ended. The parallel
\* tasks finish first-spawned first or last-spawned first, which are all the
\* orders of two tasks; SpecAct runs act() under every order of any number
ActReturns ==
    /\ pc = "act"
    /\ LET th == thought.value
           n == Len(th.planned_actions)
           parallel == config.parallel_tool_execution /\ n > 1
           orders == IF parallel
                     THEN {[i \in 1..n |-> i], [i \in 1..n |-> n + 1 - i]}
                     ELSE {[i \in 1..n |-> i]}
       IN \E results \in [1..n -> IF parallel THEN ExecOutcome
                                              ELSE ExecOutcome \ {"panic"}] :
            /\ \E acted \in {act(config.parallel_tool_execution,
                                  th.planned_actions, results, order) :
                                  order \in orders} :
                  LET r == step_acted(state, th, acted) IN
                  /\ StepReturns(r)
                  /\ progress_log' = IF r.ret.value.outcome = "Continue"
                                     THEN emit_progress(progress_log, traced,
                                                        entered("Observing", r.state))
                                     ELSE progress_log
            /\ tool_log' = IF traced
                           THEN tool_log \o executions(parallel, state.iteration,
                                                       th.planned_actions, results)
                           ELSE tool_log
    /\ UNCHANGED <<now, last_call, config, cancelled, caller, response, llm_log, steps,
                   cancel_at, timeout_at, otherVars>>

\* run(): the check after the loop and the response
Finish ==
    /\ pc = "final"
    /\ response' = Some(ReActResponse(final_answer, state.iteration_history,
                        final_reason(state, now, cancelled, termination_reason),
                        total_tools_executed))
    /\ pc' = "done"
    /\ progress_log' = emit_progress(progress_log, traced, Progress("end", Percent(100)))
    /\ UNCHANGED <<stateVars, config, cancelled, caller, thought, runLocals,
                   step_result, llm_log, steps, tool_log, cancel_at, timeout_at, otherVars>>

\* what the engine does by itself once run() or step() is called
EngineStep ==
    \/ LoopCheck
    \/ StepBegin
    \/ ThinkReturns
    \/ ActReturns
    \/ Finish

Next ==
    \/ Tick
    \/ Cancel
    \/ RunStart
    \/ EngineStep

Spec == Init /\ [][Next]_vars

\* the engine with step() also called directly, between two run() calls
NextStep == Next \/ StepCall

\* an engine for a session of MaxIter iterations: step() does not look at the
\* timeout, and it refuses the iteration after the last as the one after MaxIter
InitStep ==
    /\ now = 0
    /\ state = with_config(MaxIter, MaxTime, now)
    /\ last_call = Call("with_config", None, Ok, state)
    /\ config \in [parallel_tool_execution : BOOLEAN]
    /\ EngineIdle
    /\ traced = FALSE
    /\ NoGatherer
    /\ NoUnits

SpecStep == InitStep /\ [][NextStep]_vars

\* every await returns and the task that runs run() is scheduled
SpecLive == Spec /\ WF_vars(EngineStep)

\* ------------------------------------------------------- SpecAct: act()

\* tool names of the actions act() is called with
ActTools == {"ls", "cat"}

\* an engine in either mode, before any act() call
InitAct ==
    /\ now = 0
    /\ state = with_config(MaxIter, MaxTime, now)
    /\ last_call = Call("with_config", None, Ok, state)
    /\ config \in [parallel_tool_execution : BOOLEAN]
    /\ EngineIdle
    /\ traced = FALSE
    /\ NoGatherer
    /\ NoUnits

\* act(actions), once: the executor ends each call with one of ExecOutcome (a
\* panic in a spawned task only), the spawned tasks finish in any order, and
\* act() returns once the loop over the handles is left, after returned tasks
\* have finished
ActCall ==
    /\ act_call = None
    /\ \E actions \in SeqsOf(ActTools, 1, MaxActions) :
        LET n == Len(actions)
            parallel == config.parallel_tool_execution /\ n > 1
        IN \E results \in [1..n -> IF parallel THEN ExecOutcome
                                               ELSE ExecOutcome \ {"panic"}],
              order \in IF parallel THEN Perms(n) ELSE {[i \in 1..n |-> i]},
              returned \in 0..n :
             /\ returned >= join_point(results, order)
             /\ act_call' = Some([actions |-> actions, results |-> results,
                                  order |-> order, parallel |-> parallel,
                                  running |-> running(order, returned),
                                  ret |-> act(config.parallel_tool_execution,
                                              actions, results, order)])
             /\ UNCHANGED <<stateVars, config, cancelled, pc, caller, thought,
                            runLocals, response, step_result, llm_log, steps,
                            tool_log, cancel_at, timeout_at, progress_log, traced, gatherVars, unitVars>>

SpecAct == InitAct /\ [][ActCall]_vars

\* ------------------------------------------- SpecGather: the composite

\* CompositeContextGatherer::new(token_budget)
InitGather ==
    /\ now = 0
    /\ state = with_config(MaxIter, MaxTime, now)
    /\ last_call = Call("with_config", None, Ok, state)
    /\ config = [parallel_tool_execution |-> TRUE]
    /\ EngineIdle
    /\ traced = FALSE
    /\ gatherers = << >>
    /\ token_budget \in 0..MaxBudget
    /\ gathered = None
    /\ NoUnits

\* add_gatherer(g); the name of a child is the number of its add_gatherer call
AddGatherer ==
    /\ gathered = None
    /\ Len(gatherers) < MaxChildren
    /\ \E p \in Priorities :
          gatherers' = add_gatherer(gatherers,
                                    [name |-> Len(gatherers) + 1, priority |-> p])
    /\ UNCHANGED <<stateVars, config, cancelled, pc, caller, thought, runLocals,
                   response, step_result, llm_log, steps, tool_log, cancel_at, timeout_at, progress_log,
                   traced, act_call, unitVars, token_budget, gathered>>

\* set_token_budget(budget)
SetTokenBudget ==
    /\ gathered = None
    /\ \E b \in 0..MaxBudget : token_budget' = b
    /\ UNCHANGED <<stateVars, config, cancelled, pc, caller, thought, runLocals,
                   response, step_result, llm_log, steps, tool_log, cancel_at, timeout_at, progress_log,
                   traced, act_call, unitVars, gatherers, gathered>>

\* gather_all(query, iteration): every child that is called fails or returns
\* chunks of any token counts, whatever budget it is handed
GatherAll ==
    /\ gathered = None
    /\ \E ret \in gather_all(gatherers, token_budget) : gathered' = Some(ret)
    /\ UNCHANGED <<stateVars, config, cancelled, pc, caller, thought, runLocals,
                   response, step_result, llm_log, steps, tool_log, cancel_at, timeout_at, progress_log,
                   traced, act_call, unitVars, gatherers, token_budget>>

NextGather == AddGatherer \/ SetTokenBudget \/ GatherAll

SpecGather == InitGather /\ [][NextGather]_vars

\* ------------------------------------------------ SpecObs: process()

\* an engine and a composite that are not used
NoEngine ==
    /\ now = 0
    /\ state = with_config(MaxIter, MaxTime, now)
    /\ last_call = Call("with_config", None, Ok, state)
    /\ config = [parallel_tool_execution |-> TRUE]
    /\ EngineIdle
    /\ traced = FALSE
    /\ NoGatherer

\* ObservationProcessor::with_truncation, before any process() call
InitObs ==
    /\ NoEngine
    /\ \E m \in 0..MaxObsTokens, st \in TruncationStrategy :
          processor = with_truncation(m, st)
    /\ process_call = None
    /\ NoParser
    /\ NoAction
    /\ NoLocks

\* process(result, call), once, for a result whose content is raw_content
ProcessCall ==
    /\ process_call = None
    /\ \E raw_content \in SeqsOf(Chars, 0, MaxContent) :
          process_call' = Some([raw_content |-> raw_content,
                                observation |-> processed(processor, raw_content)])
    /\ UNCHANGED <<restVars, processor, parseVars, tool_action, lockVars>>

SpecObs == InitObs /\ [][ProcessCall]_vars

\* ---------------------------------------------------- SpecParse: parse()

\* ThoughtParser::new / with_patterns / with_fallback, before any parse() call
InitParse ==
    /\ NoEngine
    /\ NoProcessor
    /\ \E patterns \in PatternLists, fb \in FallbackStrategy :
          thought_parser = ThoughtParser(patterns, fb)
    /\ parse_call = None
    /\ NoAction
    /\ NoLocks

\* parse(llm_response, tool_calls), once
ParseCall ==
    /\ parse_call = None
    /\ \E text \in ResponseTexts, tool_calls \in ToolCallLists :
          parse_call' = Some([llm_response |-> text, tool_calls |-> tool_calls,
                              ret |-> parse(thought_parser, text, tool_calls)])
    /\ UNCHANGED <<restVars, obsVars, thought_parser, tool_action, lockVars>>

SpecParse == InitParse /\ [][ParseCall]_vars

\* ------------------------------------------- SpecAction: one Action's calls

\* Action::new
InitAction ==
    /\ NoEngine
    /\ NoProcessor
    /\ NoParser
    /\ \E tool_name \in ActTools, arguments \in {"a1", "a2"} :
          tool_action = Action(tool_name, arguments)
    /\ NoLocks

\* action.mark_executing()
MarkExecuting ==
    /\ tool_action' = mark_executing(tool_action)
    /\ UNCHANGED <<restVars, obsVars, parseVars, lockVars>>

\* action.mark_completed(output, duration)
MarkCompleted ==
    /\ \E output \in Texts, duration \in 0..MaxTime :
          tool_action' = mark_completed(tool_action, output, duration)
    /\ UNCHANGED <<restVars, obsVars, parseVars, lockVars>>

\* action.mark_failed(error, duration)
MarkFailed ==
    /\ \E error \in Texts, duration \in 0..MaxTime :
          tool_action' = mark_failed(tool_action, error, duration)
    /\ UNCHANGED <<restVars, obsVars, parseVars, lockVars>>

\* action.mark_skipped()
MarkSkipped ==
    /\ tool_action' = mark_skipped(tool_action)
    /\ UNCHANGED <<restVars, obsVars, parseVars, lockVars>>

NextAction == MarkExecuting \/ MarkCompleted \/ MarkFailed \/ MarkSkipped

SpecAction == InitAction /\ [][NextAction]_vars

\* ------------------------------- SpecLocks: the mutexes and the awaits

\* an engine and a second thread, nobody in the code
InitLocks ==
    /\ NoEngine
    /\ NoProcessor
    /\ NoParser
    /\ NoAction
    /\ NoLocks

\* thread t goes on to point n; the loop body is entered while iterations
\* are left
Goes(t, n) ==
    /\ n = "r300" => turns < MaxIter
    /\ lock_pc' = [lock_pc EXCEPT ![t] = n]
    /\ turns' = IF n = "r300" THEN turns + 1 ELSE turns

\* thread t calls run() or step(), or one of the accessors
Enter(t) ==
    /\ lock_pc[t] = "idle"
    /\ \E e \in Entries[t] :
          /\ lock_pc' = [lock_pc EXCEPT ![t] = e]
          /\ lock_caller' = IF t = "engine"
                            THEN (IF e = "r278" THEN "run" ELSE "step")
                            ELSE lock_caller
          /\ turns' = IF e = "r278" THEN 0 ELSE turns
    /\ UNCHANGED <<restVars, obsVars, parseVars, tool_action, holder>>

\* mutex.lock() returns to thread t: the mutex was free
Acquire(t) ==
    LET i == Instr(lock_pc[t]) IN
    /\ i.op = "lock"
    /\ holder[i.m] = "-"
    /\ holder' = [holder EXCEPT ![i.m] = t]
    /\ \E n \in i.next : Goes(t, n)
    /\ UNCHANGED <<restVars, obsVars, parseVars, tool_action, lock_caller>>

\* thread t drops a guard
Release(t) ==
    LET i == Instr(lock_pc[t]) IN
    /\ i.op = "unlock"
    /\ holder' = [holder EXCEPT ![i.m] = "-"]
    /\ \E n \in i.next : Goes(t, n)
    /\ UNCHANGED <<restVars, obsVars, parseVars, tool_action, lock_caller>>

\* the future thread t is suspended on becomes ready
Resume(t) ==
    LET i == Instr(lock_pc[t]) IN
    /\ i.op = "await"
    /\ \E n \in i.next : Goes(t, n)
    /\ UNCHANGED <<restVars, obsVars, parseVars, tool_action, holder, lock_caller>>

\* step() returns: to the match of run(), or to its caller
Return(t) ==
    LET i == Instr(lock_pc[t]) IN
    /\ i.op = "ret"
    /\ IF lock_caller = "run" THEN \E n \in i.next : Goes(t, n)
                               ELSE Goes(t, "idle")
    /\ UNCHANGED <<restVars, obsVars, parseVars, tool_action, holder, lock_caller>>

NextLocks ==
    \E t \in Threads :
        Enter(t) \/ Acquire(t) \/ Release(t) \/ Resume(t) \/ Return(t)

\* a thread that runs goes on; a thread that waits for a mutex gets it when
\* the mutex is free again and again; an await may never return
FairLocks ==
    /\ SF_vars(Acquire("engine")) /\ SF_vars(Acquire("other"))
    /\ WF_vars(Release("engine")) /\ WF_vars(Release("other"))
    /\ WF_vars(Return("engine"))

SpecLocks == InitLocks /\ [][NextLocks]_vars /\ FairLocks

\* the engine with the log of the tool executions and the place of the cancel
InitTraced ==
    /\ now = 0
    /\ \E m \in 0..MaxIter, d \in {0, MaxTime} : state = with_config(m, d, now)
    /\ last_call = Call("with_config", None, Ok, state)
    /\ config \in [parallel_tool_execution : BOOLEAN]
    /\ EngineIdle
    /\ traced = TRUE
    /\ NoGatherer
    /\ NoUnits

SpecTraced == InitTraced /\ [][Next]_vars

\* ======================================================= claims: SpecState

\* the transition table of the specification: the pairs marked legal
LegalTransition(p, q) ==
    \/ p = Idle /\ q = Thinking
    \/ p = Thinking /\ q = Acting
    \/ p = Acting /\ q = Observing
    \/ p = Observing /\ q = Thinking
    \/ q = Idle
    \/ q.tag = "Terminated"

\* the pairs the specification lists as errors
IllegalPairs ==
    {<<Idle, Acting>>, <<Idle, Observing>>, <<Thinking, Thinking>>,
     <<Thinking, Observing>>, <<Acting, Thinking>>, <<Acting, Acting>>,
     <<Observing, Acting>>, <<Observing, Observing>>}

\* C4: from a phase p that is not Terminated, transition_to(q) succeeds (and the
\* phase becomes q) exactly for Idle->Thinking, Thinking->Acting,
\* Acting->Observing, Observing->Thinking, p->Idle and p->Terminated; the eight
\* other pairs return InvalidTransition{from: p, to: q} and leave the phase p.
C4_TransitionTable ==
    (last_call.op = "transition_to" /\ last_call.before.phase.tag # "Terminated") =>
        LET p == last_call.before.phase
            q == last_call.arg
        IN /\ LegalTransition(p, q) <=> <<p, q>> \notin IllegalPairs
           /\ IF LegalTransition(p, q)
              THEN last_call.result = Ok /\ state.phase = q
              ELSE /\ last_call.result = InvalidTransition(p, q)
                   /\ state.phase = p

\* C4 witness: Thinking -> Thinking was refused
C4_Witness ==
    /\ last_call.op = "transition_to"
    /\ last_call.before.phase = Thinking
    /\ last_call.arg = Thinking
    /\ last_call.result.kind = "InvalidTransition"
    /\ state.phase = Thinking

\* C5: once the phase is Terminated(r), every transition_to (to any phase) and
\* every terminate fails with AlreadyTerminated{reason: r} and changes nothing;
\* no call but reset leaves the Terminated phase, and reset does.
C5_TerminatedAbsorbing ==
    last_call.before.phase.tag = "Terminated" =>
        /\ last_call.op \in {"transition_to", "terminate"} =>
              /\ last_call.result = AlreadyTerminated(last_call.before.phase.reason)
              /\ state = last_call.before
        /\ last_call.op # "reset" => state.phase = last_call.before.phase
        /\ last_call.op = "reset" => state.phase = Idle

\* C5 witness: transition_to(Idle) was refused in a session terminated by Timeout
C5_Witness ==
    /\ last_call.op = "transition_to"
    /\ last_call.arg = Idle
    /\ last_call.before.phase = Terminated("Timeout")
    /\ last_call.result = AlreadyTerminated("Timeout")
    /\ state.phase = Terminated("Timeout")

\* C6: after any sequence of calls iteration <= max_iterations, and no call
\* but reset decreases the counter.
C6_IterationBounded ==
    /\ state.iteration <= state.max_iterations
    /\ last_call.op # "reset" => state.iteration >= last_call.before.iteration

\* C6 witness: the counter is at a positive limit and a further increment was refused
C6_Witness ==
    /\ state.max_iterations = MaxIter
    /\ state.iteration = state.max_iterations
    /\ last_call.op = "increment_iteration"
    /\ last_call.result.kind = "MaxIterationsExceeded"

\* C7: increment_iteration at iteration = max_iterations returns
\* MaxIterationsExceeded{max: max_iterations} and leaves every field of the
\* state as it was; at iteration < max_iterations it returns Ok and the counter
\* is larger by exactly 1.
C7_IncrementAtLimit ==
    last_call.op = "increment_iteration" =>
        LET b == last_call.before IN
        /\ b.iteration = b.max_iterations =>
              /\ last_call.result = MaxIterationsExceeded(b.max_iterations)
              /\ state = b
        /\ b.iteration < b.max_iterations =>
              /\ last_call.result = Ok
              /\ state.iteration = b.iteration + 1

\* C7 witness: an increment refused at the limit of a session that has a
\* history, a context and a pending action
C7_Witness ==
    /\ last_call.op = "increment_iteration"
    /\ last_call.before.iteration = MaxIter
    /\ last_call.result = MaxIterationsExceeded(MaxIter)
    /\ state.iteration_history # << >>
    /\ state.accumulated_context # << >>
    /\ state.pending_actions # << >>

\* a state without its start timestamp
WithoutStart(s) == [s EXCEPT !.started_at = 0]

\* C9: after reset, from any phase, the phase is Idle, the counter 0, the
\* history, the context and the pending actions are empty and max_iterations
\* and timeout are what they were; a second reset, at any later time, changes
\* nothing but the start timestamp.
C9_Reset ==
    last_call.op = "reset" =>
        /\ state.phase = Idle
        /\ state.iteration = 0
        /\ state.iteration_history = << >>
        /\ state.accumulated_context = << >>
        /\ state.pending_actions = << >>
        /\ state.max_iterations = last_call.before.max_iterations
        /\ state.timeout = last_call.before.timeout
        /\ \A t \in now..MaxTime : WithoutStart(reset(state, t)) = WithoutStart(state)

\* C9 witness: a reset of a terminated session that had counted, recorded an
\* iteration, a context and a pending action, after its start
C9_Witness ==
    /\ last_call.op = "reset"
    /\ last_call.before.phase.tag = "Terminated"
    /\ last_call.before.iteration > 0
    /\ last_call.before.iteration_history # << >>
    /\ last_call.before.accumulated_context # << >>
    /\ last_call.before.pending_actions # << >>
    /\ state.started_at > last_call.before.started_at

\* ============================================================ claims: Spec

\* C1: a returned response has a final answer exactly when its
\* terminated_reason is TaskComplete.
C1_FinalAnswerIffTaskComplete ==
    response # None =>
        (response.value.final_answer # None
            <=> response.value.terminated_reason = "TaskComplete")

\* the highest-ranked termination condition that holds when run() builds its
\* response, in the order TaskComplete > UserCancelled > Timeout > Error >
\* MaxIterationsReached: answered is "the last step returned a final answer",
\* reason the loop's termination_reason (Error or MaxIterationsReached)
HighestRanked(answered, is_cancelled, timed_out, reason) ==
    IF answered THEN "TaskComplete"
    ELSE IF is_cancelled THEN "UserCancelled"
    ELSE IF timed_out THEN "Timeout"
    ELSE reason

\* C2: the terminated_reason of the response is the highest-ranked of the
\* termination conditions that hold when run() builds the response.
C2_ReasonPrecedence ==
    [][(pc = "final" /\ pc' = "done") =>
          response'.value.terminated_reason =
              HighestRanked(final_answer # None, cancelled,
                            has_timed_out(state, now), termination_reason)]_vars

\* C3: run() makes at most max_iterations step() calls, and once called it
\* returns a response with a terminated_reason, whatever the LLM, the tools,
\* the clock and the cancel flag do.
C3_RunReturns ==
    /\ [](steps <= state.max_iterations)
    /\ (pc = "loop") ~>
          (/\ pc = "done"
           /\ response # None
           /\ response.value.terminated_reason \in TerminationReason)

\* C3 witness: a run that made MaxIter steps and returned MaxIterationsReached
C3_Witness ==
    /\ pc = "done"
    /\ steps = MaxIter
    /\ response # None
    /\ response.value.terminated_reason = "MaxIterationsReached"
    /\ Len(response.value.iterations) = MaxIter

\* the loop guard as the specification states it
LoopGuard(s, t, c) ==
    /\ s.phase.tag # "Terminated"
    /\ s.iteration < s.max_iterations
    /\ ~(t - s.started_at >= s.timeout)
    /\ ~c

\* C8: the engine's can_continue is true exactly when the phase is not
\* Terminated, iteration < max_iterations, the session has not timed out and
\* the cancel flag is not set (for the session as it is and in any phase), and
\* run() starts a step only in a state where it is true.
C8_LoopGuard ==
    /\ [](\A p \in ReActPhase, c \in BOOLEAN :
            LET s == [state EXCEPT !.phase = p] IN
            engine_can_continue(s, now, c) <=> LoopGuard(s, now, c))
    /\ [][(pc = "loop" /\ pc' = "step") => LoopGuard(state, now, cancelled)]_vars

\* C8 witness: the loop ended for the cancel flag alone
C8_Witness ==
    /\ pc = "final"
    /\ cancelled
    /\ can_continue(state, now)
    /\ state.iteration > 0
    /\ termination_reason = "MaxIterationsReached"

\* the thoughts 1..k of the log are k-1 thoughts that plan an action and a
\* final answer
AnswersAt(k) ==
    /\ k \in 1..Len(llm_log)
    /\ k <= state.max_iterations
    /\ \A i \in 1..(k - 1) :
          ~llm_log[i].is_final_answer /\ llm_log[i].planned_actions # << >>
    /\ llm_log[k].is_final_answer

\* the actions planned by the thoughts 1..n of the log
RECURSIVE PlannedUpTo(_)
PlannedUpTo(n) ==
    IF n = 0 THEN 0 ELSE PlannedUpTo(n - 1) + Len(llm_log[n].planned_actions)

\* C10: when the LLM plans at least one action in each of the iterations
\* 1..k-1 and gives a final answer in iteration k <= max_iterations, with no
\* cancel and no timeout, run() returns TaskComplete, the answer text, exactly
\* k iteration records and the number of actions planned in 1..k-1 as
\* total_tools_executed, and runs no step after the answer.
C10_AnswerAtK ==
    [][(/\ pc = "final" /\ pc' = "done"
        /\ ~cancelled
        /\ ~has_timed_out(state, now)) =>
          \A k \in 1..MaxIter + 1 :
             AnswersAt(k) =>
                /\ response'.value.terminated_reason = "TaskComplete"
                /\ response'.value.final_answer = Some(llm_log[k].reasoning)
                /\ Len(response'.value.iterations) = k
                /\ response'.value.total_tools_executed = PlannedUpTo(k - 1)
                /\ Len(llm_log) = k
                /\ steps = k]_vars

\* C10 witness: an answer in iteration 2 after two tools in iteration 1
C10_Witness ==
    /\ pc = "done"
    /\ ~cancelled
    /\ Len(llm_log) = 2
    /\ Len(llm_log[1].planned_actions) = 2
    /\ response # None
    /\ response.value.terminated_reason = "TaskComplete"
    /\ response.value.final_answer = Some("r2")
    /\ Len(response.value.iterations) = 2
    /\ response.value.total_tools_executed = 2

\* the LLM returned a thought whenever think() called it in this run, and each
\* of these thoughts plans exactly n actions and is not a final answer
PlansEach(n) ==
    /\ step_result # Some(OutcomeError("Thinking failed"))
    /\ \A i \in 1..Len(llm_log) :
          ~llm_log[i].is_final_answer /\ Len(llm_log[i].planned_actions) = n

\* C11: when the LLM never gives a final answer and plans exactly one action
\* in every iteration, every tool call returns a result and there is no cancel
\* and no timeout, run() makes exactly max_iterations steps and returns
\* MaxIterationsReached, no final answer, max_iterations iteration records and
\* total_tools_executed = max_iterations.
C11_MaxIterationsCap ==
    [][(/\ pc = "final" /\ pc' = "done"
        /\ ~cancelled
        /\ ~has_timed_out(state, now)
        /\ PlansEach(1)
        /\ step_result # Some(OutcomeError("Action execution failed"))) =>
          /\ steps = state.max_iterations
          /\ response'.value.terminated_reason = "MaxIterationsReached"
          /\ response'.value.final_answer = None
          /\ Len(response'.value.iterations) = state.max_iterations
          /\ response'.value.total_tools_executed = state.max_iterations]_vars

\* C11 witness: MaxIter iterations of one tool each, the last tool with a
\* failed result, and the cap reached
C11_Witness ==
    /\ pc = "done"
    /\ ~cancelled
    /\ state.max_iterations = MaxIter
    /\ steps = MaxIter
    /\ PlansEach(1)
    /\ response # None
    /\ response.value.terminated_reason = "MaxIterationsReached"
    /\ response.value.final_answer = None
    /\ Len(response.value.iterations) = MaxIter
    /\ response.value.iterations[MaxIter].observations = <<"error">>
    /\ response.value.total_tools_executed = MaxIter

\* C12: after a step that returned Continue with action_count = 0 the next
\* step of the loop reaches Thinking and calls the LLM again, and a run in
\* which the LLM never plans an action and never answers (no cancel, no
\* timeout) records max_iterations iterations and returns MaxIterationsReached.
C12_ContinueWithoutAction ==
    /\ [][(/\ pc = "step" /\ pc' # pc
           /\ caller = "run"
           /\ ~cancelled
           /\ step_result # None
           /\ step_result.value.outcome = "Continue"
           /\ step_result.value.action_count = 0) =>
             pc' = "think" /\ state'.phase = Thinking]_vars
    /\ [][(/\ pc = "final" /\ pc' = "done"
           /\ ~cancelled
           /\ ~has_timed_out(state, now)
           /\ PlansEach(0)) =>
             /\ response'.value.terminated_reason = "MaxIterationsReached"
             /\ Len(response'.value.iterations) = state.max_iterations]_vars

\* C14: when the cancel flag is set as the loop evaluates its condition, no
\* step is started: the loop ends without a call of the LLM or of a tool and
\* with the counter and the history as they were, and run(), if the session
\* has not timed out when it determines the reason, returns UserCancelled.
C14_CancelBeforeStep ==
    /\ [][(pc = "loop" /\ pc' # pc /\ cancelled) =>
             /\ pc' = "final"
             /\ state' = state
             /\ llm_log' = llm_log
             /\ steps' = steps]_vars
    /\ [][(pc = "final" /\ pc' # pc) =>
             /\ pc' = "done"
             /\ state' = state
             /\ llm_log' = llm_log
             /\ steps' = steps
             /\ response'.value.iterations = state.iteration_history
             /\ (cancelled /\ ~has_timed_out(state, now)) =>
                   response'.value.terminated_reason = "UserCancelled"]_vars

\* C14 witness: run() returned UserCancelled after the loop condition ended a
\* loop that had recorded an iteration and could have gone on
C14_Witness ==
    /\ pc = "done"
    /\ cancelled
    /\ step_result # None
    /\ step_result.value.outcome = "Continue"
    /\ state.iteration = 1
    /\ state.iteration < state.max_iterations
    /\ steps = 1
    /\ response # None
    /\ response.value.terminated_reason = "UserCancelled"
    /\ Len(response.value.iterations) = 1

\* C18, the state part: the numbers of the records are strictly increasing and
\* none is above the counter
HistoryNumbered(s) ==
    /\ \A i \in 1..Len(s.iteration_history) :
          s.iteration_history[i].number <= s.iteration
    /\ \A i, j \in 1..Len(s.iteration_history) :
          i < j => s.iteration_history[i].number < s.iteration_history[j].number

\* C18: through run() and step(), a record's number is the value of the
\* counter when it is appended, the numbers of the history are strictly
\* increasing, and the history changes only by the append of one record or by
\* the reset that starts a run.
C18_HistoryAppendOnly ==
    /\ [](HistoryNumbered(state))
    /\ [][state'.iteration_history # state.iteration_history =>
             \/ /\ pc' = "loop" /\ pc \in {"idle", "done"}
                /\ state'.iteration_history = << >>
             \/ /\ Len(state'.iteration_history) = Len(state.iteration_history) + 1
                /\ SubSeq(state'.iteration_history, 1, Len(state.iteration_history))
                      = state.iteration_history
                /\ state'.iteration_history[Len(state'.iteration_history)].number
                      = state.iteration
                /\ state'.iteration = state.iteration]_vars

\* C18 witness: a second record, appended by a step() called after a run that
\* had recorded one
C18_Witness ==
    /\ caller = "step"
    /\ Len(state.iteration_history) = 2
    /\ state.iteration_history[1].number = 1
    /\ state.iteration_history[2].number = 2
    /\ state.iteration = 2

\* C35: when run() returns, whichever way the session ended, current_phase()
\* is Terminated{reason} with reason equal to the response's
\* terminated_reason.
C35_TerminatedWhenRunReturns ==
    (pc = "done" /\ caller = "run") =>
        state.phase = Terminated(response.value.terminated_reason)

\* C37: step() called while the cancel flag is set, or while iteration =
\* max_iterations, returns IterationOutcome::Error without calling the LLM, a
\* gatherer or a tool, and leaves the session state (iteration, phase,
\* history, accumulated context) unchanged.
C37_StepRefused ==
    [][(/\ pc = "step"
        /\ pc' # "step"
        /\ cancelled \/ state.iteration = state.max_iterations) =>
          /\ pc' \notin {"think", "act"}
          /\ step_result' # None
          /\ step_result'.value.outcome = "Error"
          /\ llm_log' = llm_log
          /\ tool_log' = tool_log
          /\ state' = state]_vars

\* step(), called at the iteration limit with the flag clear, has refused
C37_Witness ==
    /\ caller = "step"
    /\ pc = "idle"
    /\ ~cancelled
    /\ state.iteration = state.max_iterations
    /\ step_result = Some(OutcomeError("Max iterations reached"))

\* what step() returned is a failure that followed the increment
FailedAfterIncrement(ret) ==
    \/ ret.outcome = "Err"
    \/ /\ ret.outcome = "Error"
       /\ ret.message \notin {"Cancelled by user", "Max iterations reached"}

\* C38: in every state reachable during run(), len(iteration_history) <=
\* iteration <= max_iterations; after every step that returns Continue or
\* Complete, len(iteration_history) = iteration; a step that fails after the
\* increment leaves iteration = len(iteration_history) + 1, with no record for
\* the failed iteration, and is the last step of the run.
C38_HistoryAndIteration ==
    [][caller' = "run" =>
         /\ Len(state'.iteration_history) <= state'.iteration
         /\ state'.iteration <= state'.max_iterations
         /\ (pc \in {"step", "think", "act"} /\ pc' \in {"loop", "final"}) =>
              LET ret == step_result'.value IN
              /\ ret.outcome \in {"Continue", "Complete"} =>
                   Len(state'.iteration_history) = state'.iteration
              /\ FailedAfterIncrement(ret) =>
                   /\ state'.iteration = Len(state'.iteration_history) + 1
                   /\ state'.iteration_history = state.iteration_history
                   /\ \A i \in 1..Len(state'.iteration_history) :
                        state'.iteration_history[i].number
                            # state'.iteration
                   /\ pc' = "final"]_vars

\* the second step of a run() failed in its action after the first one was
\* recorded
C38_Witness ==
    /\ caller = "run"
    /\ pc = "final"
    /\ step_result = Some(OutcomeError("Action execution failed"))
    /\ state.iteration = 2
    /\ Len(state.iteration_history) = 1

\* the sum of the lengths of actions_taken over the records of a history
RECURSIVE ActionsTaken(_)
ActionsTaken(history) ==
    IF history = << >>
    THEN 0
    ELSE Len(history[1].actions_taken) + ActionsTaken(Tail(history))

\* C39: for every run(), total_tools_executed in the response equals the sum
\* of the lengths of actions_taken over all iteration records of the
\* response, whichever way the run ended.
C39_ToolsMatchRecords ==
    (pc = "done" /\ caller = "run") =>
        response.value.total_tools_executed
            = ActionsTaken(response.value.iterations)

\* a run() of two iterations, one action in the first and two in the second,
\* has returned
C39_Witness ==
    /\ pc = "done"
    /\ caller = "run"
    /\ Len(response.value.iterations) = 2
    /\ Len(response.value.iterations[1].actions_taken) = 1
    /\ Len(response.value.iterations[2].actions_taken) = 2
    /\ response.value.total_tools_executed = 3

\* ====================================================== claims: SpecTraced

\* C13: when cancel() sets the flag after n >= 1 iterations are recorded and
\* while the next one is in progress, before its LLM call has returned, run()
\* (that does not time out) returns UserCancelled, no final answer and exactly
\* n iteration records, whatever the LLM returns.
C13_CancelMidIteration ==
    [][(/\ pc = "final" /\ pc' = "done"
        /\ cancel_at # None
        /\ cancel_at.value.pc \in {"step", "think"}
        /\ cancel_at.value.recorded >= 1
        /\ ~has_timed_out(state, now)) =>
          /\ response'.value.terminated_reason = "UserCancelled"
          /\ response'.value.final_answer = None
          /\ Len(response'.value.iterations) = cancel_at.value.recorded]_vars

\* C29: step() checks the cancel flag before the transition to Acting: when
\* the flag is set at the moment the LLM call has returned, while the step is
\* still before that transition, no tool of the iteration is executed (the
\* step does not go on to act(), and the log of executions holds none of the
\* iteration in progress when cancel() was called).
C29_CancelBeforeActing ==
    /\ [][(pc = "think" /\ cancelled /\ pc' # pc) => pc' # "act"]_vars
    /\ [](\A i \in 1..Len(tool_log) :
             (cancel_at # None /\ cancel_at.value.pc = "think") =>
                 tool_log[i].number # state.iteration)

\* the timeout of the running session elapsed while step() was at the await
\* of think() or of act()
TimedOutMidIteration ==
    timeout_at # None /\ timeout_at.value.pc \in {"think", "act"}

NewExecutions == SubSeq(tool_log', Len(tool_log) + 1, Len(tool_log'))

\* C15: in sequential and in parallel mode, unless the join of a task fails,
\* act() makes an observation of every tool call, also of one that returned
\* success = false or whose executor call returned an error; the step records
\* them and returns Continue, and the loop goes on.
C15_ToolFailureContinues ==
    [][(pc = "act" /\ pc' # pc) =>
          LET new == NewExecutions
              planned == thought.value.planned_actions
              parallel == config.parallel_tool_execution /\ Len(planned) > 1
              join_failed ==
                  parallel /\ \E i \in 1..Len(new) : new[i].observed = "-"
          IN ~join_failed =>
                /\ step_result'.value.outcome = "Continue"
                /\ pc' = "loop"
                /\ Len(state'.iteration_history) = Len(state.iteration_history) + 1
                /\ Len(state'.iteration_history[Len(state'.iteration_history)].observations)
                      = Len(planned)]_vars

\* the execution e is in a record of the history: its tool name among the
\* actions taken and its observation among the observations
Recorded(e, history) ==
    \E k \in 1..Len(history) :
        /\ history[k].number = e.number
        /\ e.index <= Len(history[k].actions_taken)
        /\ history[k].actions_taken[e.index] = e.tool_name
        /\ e.index <= Len(history[k].observations)
        /\ history[k].observations[e.index] = e.observed

\* C17: every tool execution the engine started during a run() is in an
\* iteration record of the response, its tool name in actions_taken and its
\* observation in observations, also when a later tool of the iteration, the
\* join of the tasks or a later phase of the iteration failed.
C17_FaithfulHistory ==
    response # None =>
        \A i \in 1..Len(tool_log) : Recorded(tool_log[i], response.value.iterations)

\* cancel() was called before run() and not since
CancelledBeforeRun ==
    /\ caller = "run"
    /\ cancel_at # None
    /\ cancel_at.value.pc = "before run"

\* C36: run() clears the cancel flag and resets the state before its first
\* loop turn, so a cancel() issued before run() has no effect on that run:
\* the loop is entered and the first step executed as if cancel() had not
\* been called, and the run is not reported UserCancelled.
C36_CancelBeforeRun ==
    [][CancelledBeforeRun' =>
         /\ ~cancelled'
         /\ pc' = "loop" /\ pc # "loop" /\ steps' = 0 =>
              state' = with_config(state.max_iterations, state.timeout, now)
         /\ pc = "loop" /\ pc' # "loop" /\ steps = 0 =>
              (pc' = "step" <=> state.max_iterations > 0 /\ ~has_timed_out(state, now))
         /\ pc = "step" /\ steps = 1 /\ pc' # "step" =>
              /\ pc' = "think"
              /\ state'.iteration = 1
         /\ pc' = "done" => response'.value.terminated_reason # "UserCancelled"]_vars

\* cancel() was called before run(), and the run recorded its first iteration
C36_Witness ==
    /\ CancelledBeforeRun
    /\ pc = "done"
    /\ Len(response.value.iterations) >= 1

\* a percentage is at most another one
PercentLeq(a, b) == a.num * b.den <= b.num * a.den

\* the percentages of the events of a log never fall from one to the next
NonDecreasing(log) ==
    \A i \in 1..(Len(log) - 1) :
        PercentLeq(log[i].percentage, log[i + 1].percentage)

\* C34: within one run() the progress percentages emitted never fall: the
\* first event carries 0, every entry of Thinking, Acting and Observing emits
\* iteration / max_iterations * 100 for the current iteration, and the last
\* event, emitted before run() returns, carries 100.
C34_ProgressMonotone ==
    [][(caller' = "run" /\ pc' # pc) =>
         LET emitted == progress_log' # progress_log /\ progress_log' # << >>
             e == progress_log'[Len(progress_log')]
         IN /\ emitted =>
                 /\ NonDecreasing(progress_log')
                 /\ progress_log'[1].percentage = Percent(0)
            /\ pc = "step" /\ pc' = "think" => emitted /\ e.at = "Thinking"
            /\ pc = "think" /\ pc' = "act" => emitted /\ e.at = "Acting"
            /\ pc = "act" /\ state'.phase = Observing =>
                 emitted /\ e.at = "Observing"
            /\ emitted /\ e.at \in {"Thinking", "Acting", "Observing"} =>
                 /\ e.at = state'.phase.tag
                 /\ state'.max_iterations > 0
                 /\ e.percentage.num * state'.max_iterations
                        = state'.iteration * 100 * e.percentage.den
            /\ pc = "final" /\ pc' = "done" =>
                 emitted /\ e.percentage = Percent(100)]_vars

\* a run() of two iterations with an action each has returned: eight events
\* were emitted, with 0, three times 50 and four times 100
C34_Witness ==
    /\ pc = "done"
    /\ caller = "run"
    /\ state.max_iterations = 2
    /\ Len(progress_log) >= 8
    /\ \E i \in 1..Len(progress_log) :
         progress_log[i] = Progress("Observing", percentage(1, 2))

\* ========================================================= claims: SpecAct

\* C16: in both modes a successful act() returns one observation for each
\* planned action, the i-th observation made of the result of the i-th
\* action, in whatever order the parallel tasks finish.
C16_ObservationOrder ==
    (act_call # None /\ act_call.value.ret.ok) =>
        LET c == act_call.value IN
        /\ Len(c.ret.observations) = Len(c.actions)
        /\ \A i \in 1..Len(c.actions) :
              /\ c.ret.observations[i].tool_name = c.actions[i]
              /\ c.ret.observations[i].kind = "Success" <=> c.results[i] = "ok"

\* C16 witness: two parallel tasks for different tools; the second, which
\* fails, finishes first
C16_Witness ==
    /\ act_call # None
    /\ act_call.value.parallel
    /\ act_call.value.ret.ok
    /\ act_call.value.actions = <<"ls", "cat">>
    /\ act_call.value.results = <<"ok", "fail">>
    /\ act_call.value.order = <<2, 1>>
    /\ act_call.value.ret.observations[1].kind = "Success"
    /\ act_call.value.ret.observations[2].kind = "Error"

\* C40: in parallel mode, whenever act() returns, successfully or with a join
\* error on one task handle, every tool task it spawned for that iteration
\* has already finished.
C40_NoTaskOutlivesAct ==
    (act_call # None /\ act_call.value.parallel) =>
        act_call.value.running = {}

\* ====================================================== claims: SpecGather

\* the calls of the last gather_all in which the child returned chunks whose
\* token sum is above the budget it was handed
Overruns ==
    {k \in 1..Len(gathered.value.calls) :
        LET c == gathered.value.calls[k] IN
        c.reply.ok /\ token_sum(c.reply.chunks) > c.handed}

\* the tokens of the chunks the children returned in the calls 1..n
RECURSIVE ReturnedTokens(_, _)
ReturnedTokens(calls, n) ==
    IF n = 0 THEN 0
    ELSE ReturnedTokens(calls, n - 1)
            + (IF calls[n].reply.ok THEN token_sum(calls[n].reply.chunks) ELSE 0)

C20_OneOverrun ==
    gathered # None =>
        LET calls == gathered.value.calls
            total == gathered.value.context.total_tokens
        IN /\ Cardinality(Overruns) <= 1
           /\ \A k \in Overruns :
                 /\ calls[k].remaining = 0
                 /\ k = Len(calls)
                 /\ total - token_budget
                       <= token_sum(calls[k].reply.chunks) - calls[k].handed
           /\ Overruns = {} => total <= token_budget

\* C20 witness: the first of two children is handed 1 token and returns 2; the
\* second is not called and the total is 1 above the budget
C20_Witness ==
    /\ gathered # None
    /\ Len(gatherers) = 2
    /\ token_budget = 1
    /\ Len(gathered.value.calls) = 1
    /\ Overruns = {1}
    /\ gathered.value.context.total_tokens = 2

\* the names of the children asked in the calls
Asked(calls) == {calls[k].child.name : k \in 1..Len(calls)}

\* the number of chunks the children returned in the calls 1..n
RECURSIVE ReturnedChunks(_, _)
ReturnedChunks(calls, n) ==
    IF n = 0 THEN 0
    ELSE ReturnedChunks(calls, n - 1)
            + (IF calls[n].reply.ok THEN Len(calls[n].reply.chunks) ELSE 0)

\* C21: a child that fails does not end gather_all: there is a result, none of
\* its chunks has the failed child as its source, the budget that remains
\* after the failed call is the budget the child was handed, and the next
\* child in the order of the composite is called with that budget; the loop
\* stops before the last child only at a remaining budget of 0.
C21_FailedChildSkipped ==
    gathered # None =>
        LET calls == gathered.value.calls
            ctx == gathered.value.context
        IN /\ \A k \in 1..Len(calls) : calls[k].child = gatherers[k]
           /\ Len(calls) < Len(gatherers) =>
                 IF calls = << >> THEN token_budget = 0
                 ELSE calls[Len(calls)].remaining = 0
           /\ \A k \in 1..Len(calls) :
                 ~calls[k].reply.ok =>
                    /\ calls[k].handed > 0
                    /\ calls[k].remaining = calls[k].handed
                    /\ calls[k].child.name \notin ctx.sources
                    /\ \A c \in 1..Len(ctx.chunks) :
                          ctx.chunks[c].source # calls[k].child.name
                    /\ k < Len(gatherers) =>
                          /\ k < Len(calls)
                          /\ calls[k + 1].handed = calls[k].handed

\* C21 witness: the child of high priority fails, the child of low priority
\* that follows it is handed the whole budget and returns a chunk
C21_Witness ==
    /\ gathered # None
    /\ Len(gatherers) >= 2
    /\ gatherers[1].priority = "High"
    /\ gatherers[2].priority = "Low"
    /\ Len(gathered.value.calls) >= 2
    /\ ~gathered.value.calls[1].reply.ok
    /\ gathered.value.calls[2].reply.ok
    /\ gathered.value.calls[2].handed = token_budget
    /\ gathered.value.context.total_tokens > 0
    /\ gathered.value.context.sources = {gatherers[2].name}

\* C22: gather_all stops when the budget is used up: no child is called with
\* a budget of 0, a call that leaves 0, or after which the children have
\* returned the budget or more, is the last call, and the result has the
\* chunks of the children that were called and no other; when the first two
\* of three children return the budget between them, the third is not called
\* and total_tokens is the budget.
C22_StopsAtZero ==
    gathered # None =>
        LET calls == gathered.value.calls
            ctx == gathered.value.context
        IN /\ \A k \in 1..Len(calls) :
                 /\ calls[k].handed > 0
                 /\ calls[k].remaining = 0 => k = Len(calls)
                 /\ ReturnedTokens(calls, k) >= token_budget => k = Len(calls)
           /\ ctx.sources \subseteq Asked(calls)
           /\ Len(ctx.chunks) = ReturnedChunks(calls, Len(calls))
           /\ (/\ Len(gatherers) = 3
               /\ Len(calls) >= 2
               /\ ReturnedTokens(calls, 2) = token_budget) =>
                 /\ Len(calls) = 2
                 /\ ctx.total_tokens = token_budget
                 /\ ctx.sources \subseteq {gatherers[1].name, gatherers[2].name}

\* C22 witness: three children, the first two return chunks that use up the
\* budget between them, the third is not called
C22_Witness ==
    /\ gathered # None
    /\ Len(gatherers) = 3
    /\ token_budget = MaxBudget
    /\ Len(gathered.value.calls) = 2
    /\ \A k \in 1..2 :
          /\ gathered.value.calls[k].reply.ok
          /\ token_sum(gathered.value.calls[k].reply.chunks) > 0
    /\ gathered.value.calls[2].remaining = 0
    /\ Len(gathered.value.context.chunks) = 2
    /\ gathered.value.context.total_tokens = token_budget
    /\ gathered.value.context.sources = {gatherers[1].name, gatherers[2].name}

\* C31: whatever the order of the add_gatherer calls, the children are kept
\* with the higher priority first and, within one priority, in the order in
\* which they were added; gather_all calls them in that order, and the budget
\* it hands to a child is the configured budget minus the token counts of all
\* chunks the children called before it returned, or 0 when those are more.
C31_PriorityOrderAndBudget ==
    /\ \A i, j \in 1..Len(gatherers) :
          i < j =>
            \/ ContextPriority[gatherers[i].priority]
                  > ContextPriority[gatherers[j].priority]
            \/ /\ gatherers[i].priority = gatherers[j].priority
               /\ gatherers[i].name < gatherers[j].name
    /\ gathered # None =>
          LET calls == gathered.value.calls IN
          /\ Len(calls) <= Len(gatherers)
          /\ \A k \in 1..Len(calls) :
                /\ calls[k].child = gatherers[k]
                /\ calls[k].handed
                      = saturating_sub(token_budget, ReturnedTokens(calls, k - 1))

\* C31 witness: children added with Low, High, High are called second, third,
\* first: the second returns 1 token of 2, the third fails, and the first is
\* handed the 1 that is left
C31_Witness ==
    /\ gathered # None
    /\ token_budget = 2
    /\ Len(gathered.value.calls) = 3
    /\ gathered.value.calls[1].child = [name |-> 2, priority |-> "High"]
    /\ gathered.value.calls[2].child = [name |-> 3, priority |-> "High"]
    /\ gathered.value.calls[3].child = [name |-> 1, priority |-> "Low"]
    /\ token_sum(gathered.value.calls[1].reply.chunks) = 1
    /\ ~gathered.value.calls[2].reply.ok
    /\ gathered.value.calls[3].handed = 1

\* ========================================================= claims: SpecObs

\* C23: under every strategy and for every length of the raw content, the
\* content of the observation process() returns is not longer than
\* metadata.original_length, and as long when metadata.truncated is false.
C23_TruncationShrinks ==
    process_call # None =>
        LET o == process_call.value.observation IN
        /\ Len(o.content) <= o.metadata.original_length
        /\ ~o.metadata.truncated => Len(o.content) = o.metadata.original_length

\* C24: for every content longer than max_tokens * 4 characters,
\* truncate_content under HeadTail{head_ratio = 0} returns the string it
\* returns under TailOnly, and under HeadTail{head_ratio = 1} the string it
\* returns under HeadOnly.
C24_HeadTailLimits ==
    process_call # None =>
        LET raw == process_call.value.raw_content
            m == processor.max_observation_tokens
        IN Len(raw) > m * 4 =>
              /\ truncate_content(with_truncation(m, HeadTail(0)), raw)
                    = truncate_content(with_truncation(m, TailOnly), raw)
              /\ truncate_content(with_truncation(m, HeadTail(10)), raw)
                    = truncate_content(with_truncation(m, HeadOnly), raw)

\* ======================================================= claims: SpecParse

\* C25: under every pattern list and fallback, for every response text and
\* every list of tool calls, a Thought parse() returns with a planned action
\* has is_final_answer = false.
C25_ActionsNotFinal ==
    (parse_call # None /\ parse_call.value.ret.ok) =>
        (parse_call.value.ret.thought.planned_actions # << >> =>
            ~parse_call.value.ret.thought.is_final_answer)

\* C26: with the default configuration and a list of tool calls that is not
\* empty, parse() returns, for every response text, a Thought with one planned
\* action for each tool call, in their order, with the name and the arguments
\* of the call, and is_final_answer = false.
C26_ToolCallsAuthoritative ==
    (/\ parse_call # None
     /\ thought_parser = ThoughtParser(DefaultPatterns, "TreatAsThought")
     /\ parse_call.value.tool_calls # << >>) =>
        LET calls == parse_call.value.tool_calls
            ret == parse_call.value.ret
        IN /\ ret.ok
           /\ ~ret.thought.is_final_answer
           /\ Len(ret.thought.planned_actions) = Len(calls)
           /\ \A i \in 1..Len(calls) :
                 /\ ret.thought.planned_actions[i].tool_name = calls[i].name
                 /\ ret.thought.planned_actions[i].arguments
                       = Some(calls[i].arguments)

\* the places in the pattern list of the patterns that succeed on the call
Succeeding ==
    {i \in 1..Len(thought_parser.patterns) :
        try_pattern(parse_call.value.llm_response, parse_call.value.tool_calls,
                    thought_parser.patterns[i]).ok}

\* C32: on a response that is not blank parse() returns what the first
\* pattern of the list that succeeds returns, whatever the later patterns
\* would return, and the fallback when none succeeds; with the default order
\* and no tool calls, a response with a JSON object that has a thought is
\* parsed by the JSON pattern: the action, the arguments and the final_answer
\* flag of the Thought are those of the object.
C32_FirstPatternWins ==
    (parse_call # None /\ ~parse_call.value.llm_response.blank) =>
        LET text == parse_call.value.llm_response
            calls == parse_call.value.tool_calls
            ret == parse_call.value.ret
        IN /\ IF Succeeding = {}
              THEN ret = apply_fallback(thought_parser, text)
              ELSE LET first == CHOOSE i \in Succeeding :
                                   \A j \in Succeeding : i <= j
                   IN ret = try_pattern(text, calls, thought_parser.patterns[first])
           /\ (/\ thought_parser.patterns = DefaultPatterns
               /\ calls = << >>
               /\ text.json # None
               /\ text.json.value.reasoning) =>
                 /\ ret.ok
                 /\ ret.thought.reasoning = "json"
                 /\ ret.thought.is_final_answer = text.json.value.final_answer
                 /\ ret.thought.planned_actions
                       = IF text.json.value.action = None THEN << >>
                         ELSE <<[tool_name |-> text.json.value.action.value,
                                 arguments |-> text.json.value.arguments]>>

\* C32 witness: the default parser, no tool calls, a response with a JSON
\* object (thought, action, arguments, final_answer false) that also has a
\* Final Answer line and an Action line, which the ReAct pattern would take
C32_Witness ==
    /\ parse_call # None
    /\ thought_parser.patterns = DefaultPatterns
    /\ parse_call.value.tool_calls = << >>
    /\ parse_call.value.llm_response.json
          = Some([reasoning |-> TRUE, action |-> Some("ls"),
                  arguments |-> Some("a1"), final_answer |-> FALSE])
    /\ parse_call.value.llm_response.answer # None
    /\ parse_call.value.llm_response.actions # << >>
    /\ parse_call.value.ret.ok
    /\ parse_call.value.ret.thought.planned_actions
          = <<[tool_name |-> "ls", arguments |-> Some("a1")]>>
    /\ ~parse_call.value.ret.thought.is_final_answer

\* C33: under every configuration a blank response gives EmptyResponse; the
\* fallback decides the result exactly when the response is not blank and
\* every pattern of the list fails: TreatAsThought then gives a Thought that
\* is not final and has no action, TreatAsFinalAnswer a final Thought,
\* RequestClarification the error ClarificationNeeded, which parse() returns
\* in no other case.
C33_FallbackOnlyWhenAllFail ==
    parse_call # None =>
        LET text == parse_call.value.llm_response
            ret == parse_call.value.ret
            fallback == thought_parser.fallback_strategy
        IN /\ text.blank => (~ret.ok /\ ret.error = "EmptyResponse")
           /\ (~ret.ok /\ ret.error = "ClarificationNeeded") <=>
                 (/\ ~text.blank
                  /\ Succeeding = {}
                  /\ fallback = "RequestClarification")
           /\ (~text.blank /\ Succeeding = {}) =>
                 /\ fallback = "TreatAsThought" =>
                       /\ ret.ok
                       /\ ~ret.thought.is_final_answer
                       /\ ret.thought.planned_actions = << >>
                 /\ fallback = "TreatAsFinalAnswer" =>
                       ret.ok /\ ret.thought.is_final_answer
           /\ (~text.blank /\ Succeeding # {}) =>
                 \E i \in Succeeding :
                    ret = try_pattern(text, parse_call.value.tool_calls,
                                      thought_parser.patterns[i])

\* C33 witness: a parser with the JSON pattern alone and RequestClarification
\* returns ClarificationNeeded for a response that holds no JSON
C33_Witness ==
    /\ parse_call # None
    /\ thought_parser = ThoughtParser(<<"JsonStructured">>, "RequestClarification")
    /\ ~parse_call.value.llm_response.blank
    /\ parse_call.value.llm_response.json = None
    /\ parse_call.value.llm_response.thought = "text"
    /\ ~parse_call.value.ret.ok
    /\ parse_call.value.ret.error = "ClarificationNeeded"

\* ====================================================== claims: SpecAction

\* C27: whatever mark_executing, mark_completed, mark_failed and mark_skipped
\* calls are made on an Action, its status changes only from Pending to
\* Executing and from Executing to Completed, Failed or Skipped: a terminal
\* status is reached only from Executing and is never changed.
C27_StatusLifecycle ==
    [][tool_action'.status # tool_action.status =>
          \/ tool_action.status = "Pending" /\ tool_action'.status = "Executing"
          \/ tool_action.status = "Executing" /\ is_terminal(tool_action')]_vars

\* ======================================================= claims: SpecLocks

\* thread t is suspended at an await; thread t waits for a mutex
Suspended(t) == Instr(lock_pc[t]).op = "await"
Waiting(t) == Instr(lock_pc[t]).op = "lock"

\* C28: at every await of run() and step() the engine holds neither the
\* state mutex nor the cancel mutex, and no run(), step(), cancel() or
\* is_cancelled() waits for a mutex forever.
C28_NoLockAcrossAwait ==
    /\ [](Suspended("engine") => \A m \in Mutexes : holder[m] # "engine")
    /\ (Waiting("engine") ~> ~Waiting("engine"))
    /\ (Waiting("other") ~> ~Waiting("other"))

\* C28 witness: the engine is suspended at the await of a tool in its second
\* iteration while cancel(), on the other thread, holds the flag's mutex
C28_Witness ==
    /\ lock_pc["engine"] = "a621"
    /\ lock_pc["other"] = "x785u"
    /\ lock_caller = "run"
    /\ turns = 2
    /\ holder["state"] = "-"
    /\ holder["cancelled"] = "other"

====
